---- MODULE Spec2Model ----
(***************************************************************************)
(* Model of the vector-store layer of second-brain (lib/vectorStore):      *)
(* the two Qdrant collections "documents" (chunk points) and               *)
(* "full_documents" (one record per document), and the exported async      *)
(* functions that read and write them.  Every await of a backend or        *)
(* provider call is one atomic step; a call either takes effect and        *)
(* returns, or throws without effect.                                      *)
(*                                                                         *)
(* Text values (document ids, filenames, chunk contents) are TLA+ strings, *)
(* "" being the empty/undefined (falsy) value.  Date strings are tuples of *)
(* their zero-padded fields compared lexicographically: <<m, d>> is the    *)
(* date-only form "2024-mm-dd", <<m, d, t>> the full form                  *)
(* "2024-mm-ddTtt:00:00.000Z" produced by Date.prototype.toISOString, and  *)
(* <<>> the empty/undefined value.                                         *)
(***************************************************************************)
EXTENDS Integers, Sequences, FiniteSets, TLC

\* Every record of this module lists its fields in alphabetical order, and
\* FieldNames names them all, first, in that order.  TLC orders the fields of
\* a record by the first appearance of their names and re-sorts, in place, a
\* record written in another order, which is unsafe when several workers
\* share the record.
FieldNames ==
    [allDocs |-> 0, allPoints |-> 0, batches |-> 0, checked |-> 0,
     chunkCount |-> 0, chunkPoints |-> 0, chunkPointsToDelete |-> 0,
     chunk_index |-> 0, chunks |-> 0, chunksCount |-> 0, chunks_count |-> 0,
     collectionExists |-> 0, completed |-> 0, content |-> 0, count |-> 0,
     dateFrom |-> 0, dateTo |-> 0, dimensions |-> 0, documentId |-> 0,
     documentStoreResult |-> 0, documentStoreStatus |-> 0, document_id |-> 0,
     documents |-> 0, embeddingModel |-> 0, embeddingResult |-> 0,
     embeddingStatus |-> 0, embedding_model |-> 0, embeddingsData |-> 0,
     error |-> 0, exists |-> 0, fileSize |-> 0, fileType |-> 0,
     filename |-> 0, filter |-> 0, fullContent |-> 0, fullDocPoints |-> 0,
     full_documents |-> 0, gte |-> 0, hasMore |-> 0, hasOptions |-> 0,
     i |-> 0, id |-> 0, includeMetadata |-> 0, isFullDocument |-> 0,
     key |-> 0, limit |-> 0, lte |-> 0, match |-> 0, message |-> 0,
     model |-> 0, must |-> 0, needsRecreation |-> 0, next_page_offset |-> 0,
     none |-> 0, offset |-> 0, op |-> 0, options |-> 0, payload |-> 0,
     pending |-> 0, point |-> 0, points |-> 0, previewChunks |-> 0,
     query |-> 0, queryEmbedding |-> 0, raised |-> 0, range |-> 0,
     recreated |-> 0, results |-> 0, score |-> 0, searchParams |-> 0,
     size |-> 0, step |-> 0, str |-> 0, success |-> 0, textContent |-> 0,
     threw |-> 0, topK |-> 0, total |-> 0, type |-> 0, uploadDate |-> 0,
     value |-> 0, vector |-> 0, with_payload |-> 0]

VARIABLES
    documents,       \* backend collection "documents": [exists, size, points]
    full_documents,  \* backend collection "full_documents": [exists, size, points]
    credential,      \* TRUE iff GOOGLE_API_KEY is configured (genAI # null)
    pc,              \* pc[p]: where request p stands ("idle", "done", or an await)
    call,            \* call[p]: the function request p runs, with its arguments
    loc,             \* loc[p]: the local variables of that function
    ret,             \* ret[p]: the value the function returned (at "done")
    trace,           \* trace[p]: the remote calls the running function has issued
    pre,             \* pre[p]: the two collections as they were when it was called
    clock,           \* the hour new Date() reads next
    nops             \* number of calls started so far

vars == <<documents, full_documents, credential, pc, call, loc, ret, trace, pre,
          clock, nops>>

-----------------------------------------------------------------------------
(* Bounds of the model *)

\* Chunk ids are Math.floor(Math.random() * 1000000000000); the model draws
\* them from 1..MaxId.
MaxId == 3
\* Number of function calls in one behaviour.
MaxOps == 2
\* Longest string given to stringToNumericId on its own.
MaxLen == 5

(* Program constants *)

\* vectors: { size: 768 } and the test currentSize !== 768
ExpectedDim == 768
\* full_documents is created with vectors: { size: 1 }
FullDocDim == 1
\* A vector size left behind by an earlier embedding model.
LegacyDim == ExpectedDim \div 2
\* scroll(..., { limit: 100 }) and batchSize = 100, scaled down so that a
\* scan of a handful of points takes several pages.
ScrollLimit == 2
BatchSize == 2
\* The safety caps allPoints.length < 1000 and < 10000 are whole numbers of
\* pages of 100; they are scaled down to FullDocPages and ChunkPages pages.
FullDocPages == 2
ChunkPages == 2
FullDocCap == FullDocPages * ScrollLimit
ChunkCap == ChunkPages * ScrollLimit

Procs == {1, 2}
Ids == 1..MaxId
NoValue == [none |-> TRUE]

-----------------------------------------------------------------------------
(* Strings and dates *)

\* str.charCodeAt(i) for the document ids of the model.
CharCodes(str) ==
    CASE str = "Aa" -> <<65, 97>>
      [] str = "BB" -> <<66, 66>>
      [] str = "C"  -> <<67>>
      [] str = "D"  -> <<68>>
      [] str = "E"  -> <<69>>
      [] str = "F"  -> <<70>>
      [] OTHER      -> <<>>

\* hash << 5 on the 32-bit pattern of hash, kept as two 16-bit halves <<hi, lo>>.
ShiftLeft5(h) == <<(h[1] * 32 + h[2] \div 2048) % 65536, (h[2] * 32) % 65536>>

\* A round that shifts by four bits.
HashStepShift4(h, char) ==
    LET lo == 15 * h[2] + char
        hi == 15 * h[1] + (lo \div 65536)
    IN  <<hi % 65536, lo % 65536>>

\* One round of the loop: hash = (hash << 5) - hash + char; hash = hash & hash,
\* the last bringing the sum back to 32 bits.
HashStep(h, char) ==
    LET shifted == ShiftLeft5(h)
        lo == shifted[2] - h[2] + char
        hi == shifted[1] - h[1] + (lo \div 65536)
    IN  <<hi % 65536, lo % 65536>>

RECURSIVE HashFrom(_, _, _)
HashFrom(h, codes, i) ==
    IF i > Len(codes) THEN h ELSE HashFrom(HashStep(h, codes[i]), codes, i + 1)

\* Math.abs of the signed 32-bit value of <<hi, lo>>.
AbsInt32(h) ==
    IF h[1] >= 32768
    THEN (65535 - h[1]) * 65536 + (65536 - h[2])
    ELSE h[1] * 65536 + h[2]

\* stringToNumericId on the char codes of its argument.
NumericIdOfCodes(codes) == AbsInt32(HashFrom(<<0, 0>>, codes, 1))

stringToNumericId(str) == NumericIdOfCodes(CharCodes(str))

\* a <= b for strings given as tuples of fields (a prefix is smaller).
RECURSIVE StrLeqFrom(_, _, _)
StrLeqFrom(a, b, i) ==
    IF i > Len(a) THEN TRUE
    ELSE IF i > Len(b) THEN FALSE
    ELSE IF a[i] < b[i] THEN TRUE
    ELSE IF a[i] > b[i] THEN FALSE
    ELSE StrLeqFrom(a, b, i + 1)

StrLeq(a, b) == StrLeqFrom(a, b, 1)

\* new Date(s) understands the date-only and the full form; anything else is
\* an Invalid Date.
ValidDateString(s) ==
    /\ Len(s) \in {2, 3}
    /\ s[1] \in 1..12
    /\ s[2] \in 1..31
    /\ Len(s) = 3 => s[3] \in 0..23

\* new Date(s).toISOString(): a date-only string is midnight UTC.
ToISOString(s) == IF Len(s) = 2 THEN <<s[1], s[2], 0>> ELSE s

\* new Date().toISOString() when the clock reads hour h; two readings never
\* give the same string.
NowISO(h) == <<7, 1, h>>

-----------------------------------------------------------------------------
(* The backend *)

Missing == [exists |-> FALSE, points |-> {}, size |-> 0]

PointIds(points) == {pt.id : pt \in points}

\* An upsert that keeps the stored point when the id is taken.
UpsertPointsKeepStored(points, batch) ==
    points \cup {batch[i] : i \in {k \in 1..Len(batch) : batch[k].id \notin PointIds(points)}}

\* upsert: a point replaces the stored point with its id; within one batch
\* the later point with an id wins.
UpsertPoints(points, batch) ==
    LET last(i) == \A j \in (i + 1)..Len(batch) : batch[j].id # batch[i].id
        new == {batch[i] : i \in {k \in 1..Len(batch) : last(k)}}
    IN  {pt \in points : pt.id \notin PointIds(new)} \cup new

\* delete by ids.
DeletePoints(points, ids) == {pt \in points : pt.id \notin ids}

-----------------------------------------------------------------------------
(* Requests *)

Idle == [op |-> "none"]

Init ==
    /\ documents \in
         { Missing,
           [exists |-> TRUE, points |-> {}, size |-> ExpectedDim],
           [exists |-> TRUE,
            points |-> {[id |-> 1,
                         payload |-> [chunk_index |-> 0,
                                      content |-> "x",
                                      document_id |-> "Aa",
                                      embedding_model |-> "legacy-model",
                                      fileType |-> "text",
                                      filename |-> "a.txt",
                                      uploadDate |-> <<1, 1, 0>>],
                         vector |-> <<"legacy-embedding", "x">>]},
            size |-> LegacyDim] }
    /\ full_documents = Missing
    /\ credential \in BOOLEAN
    /\ pc = [p \in Procs |-> "idle"]
    /\ call = [p \in Procs |-> Idle]
    /\ loc = [p \in Procs |-> NoValue]
    /\ ret = [p \in Procs |-> NoValue]
    /\ trace = [p \in Procs |-> <<>>]
    /\ pre = [p \in Procs |-> NoValue]
    /\ clock = 0
    /\ nops = 0

\* A function is called: its arguments are bound and it runs to its first await.
Begin(p, c, label, locals) ==
    /\ pc[p] = "idle"
    /\ nops < MaxOps
    /\ nops' = nops + 1
    /\ pc' = [pc EXCEPT ![p] = label]
    /\ call' = [call EXCEPT ![p] = c]
    /\ loc' = [loc EXCEPT ![p] = locals]
    /\ ret' = [ret EXCEPT ![p] = NoValue]
    /\ trace' = [trace EXCEPT ![p] = <<>>]
    /\ pre' = [pre EXCEPT ![p] = [documents |-> documents,
                                  full_documents |-> full_documents]]
    /\ UNCHANGED <<documents, full_documents, credential, clock>>

\* The caller has taken the returned value.
Return(p) ==
    /\ pc[p] = "done"
    /\ pc' = [pc EXCEPT ![p] = "idle"]
    /\ call' = [call EXCEPT ![p] = Idle]
    /\ loc' = [loc EXCEPT ![p] = NoValue]
    /\ ret' = [ret EXCEPT ![p] = NoValue]
    /\ trace' = [trace EXCEPT ![p] = <<>>]
    /\ pre' = [pre EXCEPT ![p] = NoValue]
    /\ UNCHANGED <<documents, full_documents, credential, clock, nops>>

\* The running function goes on to `label` with locals `locals`, having
\* issued the remote calls `issued`.
Goto(p, label, locals, issued) ==
    /\ pc' = [pc EXCEPT ![p] = label]
    /\ loc' = [loc EXCEPT ![p] = locals]
    /\ trace' = [trace EXCEPT ![p] = trace[p] \o issued]
    /\ UNCHANGED <<call, ret, pre, nops, credential>>

\* The running function returns `value`, having issued `issued`.
Finish(p, value, locals, issued) ==
    /\ pc' = [pc EXCEPT ![p] = "done"]
    /\ ret' = [ret EXCEPT ![p] = value]
    /\ loc' = [loc EXCEPT ![p] = locals]
    /\ trace' = [trace EXCEPT ![p] = trace[p] \o issued]
    /\ UNCHANGED <<call, pre, nops, credential>>

\* loc.threw lists, in order, the steps of the running function that threw,
\* each with the text of its error.
Threw(locals, step, error) ==
    [locals EXCEPT !.threw = Append(@, [error |-> error, step |-> step])]

ThrownSteps(locals) == {locals.threw[i].step : i \in 1..Len(locals.threw)}

-----------------------------------------------------------------------------
(* Error texts *)

ErrBackend == "fetch failed"
ErrNotFound == "Not found: Collection doesn't exist!"
ErrExists == "Wrong input: Collection already exists!"
ErrConfig == "Google API key not configured. Please set GOOGLE_API_KEY in your environment variables."
ErrProvider == "Failed to generate embedding: provider error"
ErrEmptyEmbedding == "Failed to generate embedding: Invalid embedding response from Gemini API"

\* The vector the provider returns for `text`.
Embedding(text) == <<"text-embedding-004", text>>

\* generateEmbedding(text): with no credential it throws before calling the
\* provider; otherwise the provider call returns values, fails, or returns
\* an empty embedding.
EmbedOutcomes == {"ok", "error", "empty"}

EmbedError(outcome) == IF outcome = "empty" THEN ErrEmptyEmbedding ELSE ErrProvider

-----------------------------------------------------------------------------
(* storeChunksWithEmbeddings(chunks, documentId, filename, uploadDate, fileType) *)

\* A catch that lets the error escape to the caller.
StoreChunksRethrow(error) == [error |-> error, raised |-> TRUE]

\* The catch of the outer try: the error becomes a result.
StoreChunksCatch(error) == [message |-> error, success |-> FALSE]

\* const points = chunks.map((chunk, index) => ({...})) with the ids drawn.
ChunkPoints(chunks, documentId, filename, uploadTimestamp, fileType, embeddingsData, ids) ==
    [index \in 1..Len(chunks) |->
        [id |-> ids[index],
         payload |-> [chunk_index |-> index - 1,
                      content |-> chunks[index],
                      document_id |-> documentId,
                      embedding_model |-> "text-embedding-004",
                      fileType |-> IF fileType # "" THEN fileType ELSE "text",
                      filename |-> filename,
                      uploadDate |-> uploadTimestamp],
         vector |-> embeddingsData[index]]]

StoreChunks_Start(p, chunks, documentId, filename, uploadDate, fileType) ==
    Begin(p, [chunks |-> chunks,
              documentId |-> documentId,
              fileType |-> fileType,
              filename |-> filename,
              op |-> "storeChunksWithEmbeddings",
              uploadDate |-> uploadDate],
          "sc_getCollection",
          [checked |-> FALSE,
           completed |-> <<>>,
           embeddingsData |-> <<>>,
           needsRecreation |-> FALSE,
           pending |-> {},
           points |-> <<>>,
           recreated |-> FALSE,
           threw |-> <<>>])

\* getCollection without the test of the vector size.
StoreChunks_GetCollectionAnySize(p) ==
    /\ pc[p] = "sc_getCollection"
    /\ \E ok \in BOOLEAN :
         IF ok /\ documents.exists
         THEN Goto(p, "sc_embed", [loc[p] EXCEPT !.checked = TRUE], <<"getCollection">>)
         ELSE Goto(p, "sc_createCollection",
                   Threw([loc[p] EXCEPT !.needsRecreation = TRUE], "getCollection",
                         IF documents.exists THEN ErrBackend ELSE ErrNotFound),
                   <<"getCollection">>)
    /\ UNCHANGED <<documents, full_documents, clock>>

\* await qdrantClient.getCollection(collectionName) and the test of its size
StoreChunks_GetCollection(p) ==
    /\ pc[p] = "sc_getCollection"
    /\ \E ok \in BOOLEAN :
         IF ok /\ documents.exists
         THEN IF documents.size # ExpectedDim
              THEN Goto(p, "sc_deleteCollection",
                        [loc[p] EXCEPT !.needsRecreation = TRUE], <<"getCollection">>)
              ELSE Goto(p, "sc_embed", [loc[p] EXCEPT !.checked = TRUE],
                        <<"getCollection">>)
         ELSE \* catch (e): collection doesn't exist
              Goto(p, "sc_createCollection",
                   Threw([loc[p] EXCEPT !.needsRecreation = TRUE], "getCollection",
                         IF documents.exists THEN ErrBackend ELSE ErrNotFound),
                   <<"getCollection">>)
    /\ UNCHANGED <<documents, full_documents, clock>>

\* await qdrantClient.deleteCollection(collectionName), inside the inner try:
\* its error is caught like that of getCollection and createCollection comes
\* next.  The call may throw with the collection left as it was, or throw
\* (a timeout, a lost response) after the backend has carried it out.
StoreChunks_DeleteCollection(p) ==
    /\ pc[p] = "sc_deleteCollection"
    /\ \E ok \in BOOLEAN, carriedOut \in BOOLEAN :
         /\ ok => carriedOut
         /\ documents' = IF carriedOut THEN Missing ELSE documents
         /\ Goto(p, "sc_createCollection",
                 IF ok THEN loc[p] ELSE Threw(loc[p], "deleteCollection", ErrBackend),
                 <<"deleteCollection">>)
    /\ UNCHANGED <<full_documents, clock>>

\* if (needsRecreation) await qdrantClient.createCollection(...)
StoreChunks_CreateCollection(p) ==
    /\ pc[p] = "sc_createCollection"
    /\ \E ok \in BOOLEAN :
         IF ok /\ ~documents.exists
         THEN /\ documents' = [exists |-> TRUE, points |-> {}, size |-> ExpectedDim]
              /\ Goto(p, "sc_embed",
                      [loc[p] EXCEPT !.checked = TRUE, !.recreated = TRUE],
                      <<"createCollection">>)
         ELSE /\ UNCHANGED documents
              /\ LET error == IF documents.exists THEN ErrExists ELSE ErrBackend
                 IN  Finish(p, StoreChunksCatch(error),
                            Threw(loc[p], "createCollection", error), <<"createCollection">>)
    /\ UNCHANGED <<full_documents, clock>>

\* chunks.map(async (chunk, index) => generateEmbedding(chunk)): every call
\* is started at once; without a credential each throws before its request.
StoreChunks_IssueEmbeddings(p) ==
    /\ pc[p] = "sc_embed"
    /\ LET n == Len(call[p].chunks) IN
         IF ~credential /\ n > 0
         THEN Finish(p, StoreChunksCatch(ErrConfig),
                     Threw(loc[p], "generateEmbedding", ErrConfig), <<>>)
         ELSE Goto(p, IF n > 0 THEN "sc_embedding" ELSE "sc_upsert",
                   [loc[p] EXCEPT !.pending = 1..n,
                                  !.embeddingsData = [i \in 1..n |-> NoValue]],
                   [i \in 1..n |-> "embedContent"])
    /\ UNCHANGED <<documents, full_documents, clock>>

\* A barrier that waits for every call and goes on past a failed one.
StoreChunks_EmbeddingSettled(p) ==
    /\ pc[p] = "sc_embedding"
    /\ \E i \in loc[p].pending, outcome \in EmbedOutcomes :
         LET l == [loc[p] EXCEPT !.pending = @ \ {i},
                                 !.embeddingsData[i] =
                                     IF outcome = "ok" THEN Embedding(call[p].chunks[i])
                                     ELSE NoValue]
             m == IF outcome = "ok" THEN l
                  ELSE Threw(l, "generateEmbedding", EmbedError(outcome))
         IN  Goto(p, IF m.pending = {} THEN "sc_upsert" ELSE "sc_embedding", m, <<>>)
    /\ UNCHANGED <<documents, full_documents, clock>>

\* The embeddings are collected in the order in which the calls complete.
StoreChunks_EmbeddingDoneByArrival(p) ==
    /\ pc[p] = "sc_embedding"
    /\ \E i \in loc[p].pending, outcome \in EmbedOutcomes :
         IF outcome = "ok"
         THEN LET l == [loc[p] EXCEPT !.pending = @ \ {i},
                                      !.completed = Append(@, i),
                                      !.embeddingsData[Len(loc[p].completed) + 1] =
                                          Embedding(call[p].chunks[i])]
              IN  Goto(p, IF l.pending = {} THEN "sc_upsert" ELSE "sc_embedding", l, <<>>)
         ELSE Finish(p, StoreChunksCatch(EmbedError(outcome)),
                     Threw(loc[p], "generateEmbedding", EmbedError(outcome)), <<>>)
    /\ UNCHANGED <<documents, full_documents, clock>>

\* One of the pending embedContent calls completes; Promise.all rejects with
\* the first failure and resolves when the last call has returned.
StoreChunks_EmbeddingDone(p) ==
    /\ pc[p] = "sc_embedding"
    /\ \E i \in loc[p].pending, outcome \in EmbedOutcomes :
         IF outcome = "ok"
         THEN LET l == [loc[p] EXCEPT !.pending = @ \ {i},
                                      !.completed = Append(@, i),
                                      !.embeddingsData[i] = Embedding(call[p].chunks[i])]
              IN  Goto(p, IF l.pending = {} THEN "sc_upsert" ELSE "sc_embedding", l, <<>>)
         ELSE Finish(p, StoreChunksCatch(EmbedError(outcome)),
                     Threw(loc[p], "generateEmbedding", EmbedError(outcome)), <<>>)
    /\ UNCHANGED <<documents, full_documents, clock>>

\* The points are built and await qdrantClient.upsert(collectionName, {points})
StoreChunks_Upsert(p) ==
    /\ pc[p] = "sc_upsert"
    /\ clock' = IF call[p].uploadDate # <<>> THEN clock ELSE clock + 1
    /\ \E ids \in [1..Len(call[p].chunks) -> Ids], ok \in BOOLEAN :
         LET c == call[p]
             \* const uploadTimestamp = uploadDate || new Date().toISOString()
             uploadTimestamp == IF c.uploadDate # <<>> THEN c.uploadDate ELSE NowISO(clock)
             points == ChunkPoints(c.chunks, c.documentId, c.filename, uploadTimestamp,
                                   c.fileType, loc[p].embeddingsData, ids)
             l == [loc[p] EXCEPT !.points = points]
         IN  IF ok /\ documents.exists
             THEN /\ documents' = [documents EXCEPT !.points = UpsertPoints(@, points)]
                  /\ Finish(p, [count |-> Len(points),
                                dimensions |-> ExpectedDim,
                                message |-> "Stored",
                                model |-> "text-embedding-004",
                                success |-> TRUE],
                            l, <<"upsert">>)
             ELSE /\ UNCHANGED documents
                  /\ LET error == IF documents.exists THEN ErrBackend ELSE ErrNotFound
                     IN  Finish(p, StoreChunksCatch(error), Threw(l, "upsert", error),
                                <<"upsert">>)
    /\ UNCHANGED full_documents

StoreChunksStep(p) ==
    \/ StoreChunks_GetCollection(p)
    \/ StoreChunks_DeleteCollection(p)
    \/ StoreChunks_CreateCollection(p)
    \/ StoreChunks_IssueEmbeddings(p)
    \/ StoreChunks_EmbeddingDone(p)
    \/ StoreChunks_Upsert(p)

-----------------------------------------------------------------------------
(* storeFullDocument(documentId, filename, fullContent, fileType, fileSize,
                     chunkCount, uploadDate) *)

\* A point whose id also depends on the size of the document.
FullDocPointIdBySize(documentId, filename, fullContent, fileType, fileSize, chunkCount, uploadDate) ==
    [id |-> stringToNumericId(documentId) + fileSize,
     payload |-> [chunkCount |-> chunkCount,
                  documentId |-> documentId,
                  embeddingModel |-> "text-embedding-004",
                  fileSize |-> fileSize,
                  fileType |-> fileType,
                  filename |-> filename,
                  fullContent |-> fullContent,
                  isFullDocument |-> TRUE,
                  uploadDate |-> uploadDate],
     vector |-> <<0>>]

\* const point = { id: numericId, vector: [0], payload: {...} }
FullDocPoint(documentId, filename, fullContent, fileType, fileSize, chunkCount, uploadDate) ==
    [id |-> stringToNumericId(documentId),
     payload |-> [chunkCount |-> chunkCount,
                  documentId |-> documentId,
                  embeddingModel |-> "text-embedding-004",
                  fileSize |-> fileSize,
                  fileType |-> fileType,
                  filename |-> filename,
                  fullContent |-> fullContent,
                  isFullDocument |-> TRUE,
                  uploadDate |-> uploadDate],
     vector |-> <<0>>]

\* The catch of the outer try.
StoreFullCatch(error) == [error |-> error, success |-> FALSE]

StoreFull_Start(p, documentId, filename, fullContent, fileType, fileSize, chunkCount, uploadDate) ==
    Begin(p, [chunkCount |-> chunkCount,
              documentId |-> documentId,
              fileSize |-> fileSize,
              fileType |-> fileType,
              filename |-> filename,
              fullContent |-> fullContent,
              op |-> "storeFullDocument",
              uploadDate |-> uploadDate],
          "sf_getCollection",
          [collectionExists |-> FALSE, point |-> NoValue, threw |-> <<>>])

\* await qdrantClient.getCollection(documentsCollectionName)
StoreFull_GetCollection(p) ==
    /\ pc[p] = "sf_getCollection"
    /\ \E ok \in BOOLEAN :
         IF ok /\ full_documents.exists
         THEN Goto(p, "sf_upsert", [loc[p] EXCEPT !.collectionExists = TRUE],
                   <<"getCollection">>)
         ELSE Goto(p, "sf_createCollection",
                   Threw(loc[p], "getCollection",
                         IF full_documents.exists THEN ErrBackend ELSE ErrNotFound),
                   <<"getCollection">>)
    /\ UNCHANGED <<documents, full_documents, clock>>

\* if (!collectionExists) await qdrantClient.createCollection(...)
StoreFull_CreateCollection(p) ==
    /\ pc[p] = "sf_createCollection"
    /\ \E ok \in BOOLEAN :
         IF ok /\ ~full_documents.exists
         THEN /\ full_documents' = [exists |-> TRUE, points |-> {}, size |-> FullDocDim]
              /\ Goto(p, "sf_upsert", loc[p], <<"createCollection">>)
         ELSE /\ UNCHANGED full_documents
              /\ LET error == IF full_documents.exists THEN ErrExists ELSE ErrBackend
                 IN  Finish(p, StoreFullCatch(error),
                            Threw(loc[p], "createCollection", error), <<"createCollection">>)
    /\ UNCHANGED <<documents, clock>>

\* The point is built and await qdrantClient.upsert(..., {points: [point]})
StoreFull_Upsert(p) ==
    /\ pc[p] = "sf_upsert"
    /\ clock' = IF call[p].uploadDate # <<>> THEN clock ELSE clock + 1
    /\ \E ok \in BOOLEAN :
         LET c == call[p]
             \* uploadDate: uploadDate || new Date().toISOString()
             point == FullDocPoint(c.documentId, c.filename, c.fullContent, c.fileType,
                                   c.fileSize, c.chunkCount,
                                   IF c.uploadDate # <<>> THEN c.uploadDate ELSE NowISO(clock))
             l == [loc[p] EXCEPT !.point = point]
         IN  IF ok /\ full_documents.exists
             THEN /\ full_documents' =
                        [full_documents EXCEPT !.points = UpsertPoints(@, <<point>>)]
                  /\ Finish(p, [success |-> TRUE], l, <<"upsert">>)
             ELSE /\ UNCHANGED full_documents
                  /\ LET error == IF full_documents.exists THEN ErrBackend ELSE ErrNotFound
                     IN  Finish(p, StoreFullCatch(error), Threw(l, "upsert", error),
                                <<"upsert">>)
    /\ UNCHANGED documents

StoreFullStep(p) ==
    \/ StoreFull_GetCollection(p)
    \/ StoreFull_CreateCollection(p)
    \/ StoreFull_Upsert(p)

-----------------------------------------------------------------------------
(* searchRelevantChunks(query, topK, options, includeMetadata) *)

\* { key, match: { value } }
MatchCondition(key, value) == [key |-> key, match |-> [value |-> value]]

\* A range that keeps the lower bound only.
RangeFromOnly(dateFrom, dateTo) ==
    IF dateFrom # <<>> THEN [gte |-> ToISOString(dateFrom)] ELSE [none |-> TRUE]

\* rangeFilter.range: gte for dateFrom, lte for dateTo, each through
\* new Date(..).toISOString().
RangeOf(dateFrom, dateTo) ==
    IF dateFrom # <<>> /\ dateTo # <<>>
    THEN [gte |-> ToISOString(dateFrom), lte |-> ToISOString(dateTo)]
    ELSE IF dateFrom # <<>> THEN [gte |-> ToISOString(dateFrom)]
    ELSE [lte |-> ToISOString(dateTo)]

\* A filter that leaves the filename criterion out.
FilterMustWithoutFilename(options) ==
    (IF options.documentId # ""
     THEN <<MatchCondition("document_id", options.documentId)>> ELSE <<>>)
    \o (IF options.dateFrom # <<>> \/ options.dateTo # <<>>
        THEN <<[key |-> "uploadDate", range |-> RangeOf(options.dateFrom, options.dateTo)]>>
        ELSE <<>>)

\* filter.must after the three tests of options.
FilterMust(options) ==
    (IF options.documentId # ""
     THEN <<MatchCondition("document_id", options.documentId)>> ELSE <<>>)
    \o (IF options.filename # ""
        THEN <<MatchCondition("filename", options.filename)>> ELSE <<>>)
    \o (IF options.dateFrom # <<>> \/ options.dateTo # <<>>
        THEN <<[key |-> "uploadDate", range |-> RangeOf(options.dateFrom, options.dateTo)]>>
        ELSE <<>>)

\* new Date(s).toISOString() throws a RangeError for an Invalid Date.
FilterThrows(options) ==
    \/ options.dateFrom # <<>> /\ ~ValidDateString(options.dateFrom)
    \/ options.dateTo # <<>> /\ ~ValidDateString(options.dateTo)

ErrInvalidDate == "Invalid time value"

\* searchParams, with filter only when filter.must is not empty.
SearchParams(queryEmbedding, topK, hasOptions, options) ==
    IF hasOptions /\ FilterMust(options) # <<>>
    THEN [filter |-> [must |-> FilterMust(options)],
          limit |-> topK,
          vector |-> queryEmbedding,
          with_payload |-> TRUE]
    ELSE [limit |-> topK, vector |-> queryEmbedding, with_payload |-> TRUE]

\* The backend's test of one condition of must on a stored point.
Satisfies(pt, cond) ==
    IF "match" \in DOMAIN cond
    THEN pt.payload[cond.key] = cond.match.value
    ELSE LET u == pt.payload[cond.key]
             r == cond.range
         IN  /\ "gte" \in DOMAIN r => StrLeq(r.gte, u)
             /\ "lte" \in DOMAIN r => StrLeq(u, r.lte)

Matching(points, params) ==
    IF "filter" \in DOMAIN params
    THEN {pt \in points :
            \A i \in 1..Len(params.filter.must) : Satisfies(pt, params.filter.must[i])}
    ELSE points

\* The similarity of a stored vector to the query vector: the embedding of
\* the same text is the closest.
Score(queryEmbedding, vector) == IF vector = queryEmbedding THEN 2 ELSE 1

\* What search may return: the params.limit best matching points, best first,
\* each with its score; points of equal score come in any order.
SearchResults(points, params) ==
    LET matching == Matching(points, params)
        n == IF Cardinality(matching) < params.limit
             THEN Cardinality(matching) ELSE params.limit
        s(pt) == Score(params.vector, pt.vector)
    IN  { [i \in 1..n |-> [id |-> f[i].id, payload |-> f[i].payload, score |-> s(f[i])]] :
            f \in { g \in [1..n -> matching] :
                      /\ \A i, j \in 1..n : i < j => g[i] # g[j] /\ s(g[i]) >= s(g[j])
                      /\ \A pt \in matching :
                            (\A i \in 1..n : g[i] # pt) => \A i \in 1..n : s(g[i]) >= s(pt) } }

\* results.map(...) of the two modes; .filter(Boolean) drops empty contents.
ShapeResults(results, includeMetadata) ==
    IF includeMetadata
    THEN [i \in 1..Len(results) |->
            [content |-> results[i].payload.content,
             fileType |-> IF results[i].payload.fileType # ""
                          THEN results[i].payload.fileType ELSE "text",
             filename |-> results[i].payload.filename,
             score |-> results[i].score]]
    ELSE SelectSeq([i \in 1..Len(results) |-> results[i].payload.content],
                   LAMBDA content : content # "")

Search_Start(p, query, topK, hasOptions, options, includeMetadata) ==
    Begin(p, [hasOptions |-> hasOptions,
              includeMetadata |-> includeMetadata,
              op |-> "searchRelevantChunks",
              options |-> options,
              query |-> query,
              topK |-> topK],
          "se_getCollection",
          [queryEmbedding |-> NoValue,
           results |-> <<>>,
           searchParams |-> NoValue,
           threw |-> <<>>])

\* A collection check whose failure is only logged.
Search_GetCollectionLogOnly(p) ==
    /\ pc[p] = "se_getCollection"
    /\ \E ok \in BOOLEAN :
         IF ok /\ documents.exists
         THEN Goto(p, "se_embed", loc[p], <<"getCollection">>)
         ELSE Goto(p, "se_embed",
                   Threw(loc[p], "getCollection",
                         IF documents.exists THEN ErrBackend ELSE ErrNotFound),
                   <<"getCollection">>)
    /\ UNCHANGED <<documents, full_documents, clock>>

\* try { await qdrantClient.getCollection(collectionName) } catch { return [] }
Search_GetCollection(p) ==
    /\ pc[p] = "se_getCollection"
    /\ \E ok \in BOOLEAN :
         IF ok /\ documents.exists
         THEN Goto(p, "se_embed", loc[p], <<"getCollection">>)
         ELSE Finish(p, <<>>,
                     Threw(loc[p], "getCollection",
                           IF documents.exists THEN ErrBackend ELSE ErrNotFound),
                     <<"getCollection">>)
    /\ UNCHANGED <<documents, full_documents, clock>>

\* const queryEmbedding = await generateEmbedding(query), then the filter and
\* searchParams are built; an error of either is caught by the outer catch,
\* which returns [].
Search_GenerateEmbedding(p) ==
    /\ pc[p] = "se_embed"
    /\ LET c == call[p] IN
         IF ~credential
         THEN Finish(p, <<>>, Threw(loc[p], "generateEmbedding", ErrConfig), <<>>)
         ELSE \E outcome \in EmbedOutcomes :
                IF outcome # "ok"
                THEN Finish(p, <<>>,
                            Threw(loc[p], "generateEmbedding", EmbedError(outcome)),
                            <<"embedContent">>)
                ELSE IF c.hasOptions /\ FilterThrows(c.options)
                THEN Finish(p, <<>>,
                            Threw([loc[p] EXCEPT !.queryEmbedding = Embedding(c.query)],
                                  "toISOString", ErrInvalidDate),
                            <<"embedContent">>)
                ELSE Goto(p, "se_search",
                          [loc[p] EXCEPT
                              !.queryEmbedding = Embedding(c.query),
                              !.searchParams = SearchParams(Embedding(c.query), c.topK,
                                                            c.hasOptions, c.options)],
                          <<"embedContent">>)
    /\ UNCHANGED <<documents, full_documents, clock>>

\* const results = await qdrantClient.search(collectionName, searchParams)
\* and the shaping of the results.
Search_Search(p) ==
    /\ pc[p] = "se_search"
    /\ \E ok \in BOOLEAN :
         IF ok /\ documents.exists
         THEN \E results \in SearchResults(documents.points, loc[p].searchParams) :
                Finish(p, ShapeResults(results, call[p].includeMetadata),
                       [loc[p] EXCEPT !.results = results], <<"search">>)
         ELSE Finish(p, <<>>,
                     Threw(loc[p], "search",
                           IF documents.exists THEN ErrBackend ELSE ErrNotFound),
                     <<"search">>)
    /\ UNCHANGED <<documents, full_documents, clock>>

SearchStep(p) ==
    \/ Search_GetCollection(p)
    \/ Search_GenerateEmbedding(p)
    \/ Search_Search(p)

-----------------------------------------------------------------------------
(* deleteFullDocument(documentId) *)

\* offset: null
Null == -1

\* The points in the order of their ids, as scroll walks them.
RECURSIVE SortById(_)
SortById(points) ==
    IF points = {} THEN <<>>
    ELSE LET first == CHOOSE pt \in points : \A other \in points : pt.id <= other.id
         IN  <<first>> \o SortById(points \ {first})

\* A scroll whose pages hold one point more than the limit asked for.
ScrollOverLimit(points, offset, limit) ==
    LET from == SelectSeq(SortById(points), LAMBDA pt : offset = Null \/ pt.id >= offset)
        n == IF Len(from) < limit + 1 THEN Len(from) ELSE limit + 1
    IN  [next_page_offset |-> IF Len(from) > limit + 1 THEN from[limit + 2].id ELSE Null,
         points |-> [k \in 1..n |-> [id |-> from[k].id, payload |-> from[k].payload]]]

\* scroll(collection, {limit, with_payload: true, with_vector: false, offset}):
\* the next `limit` points from `offset` on, and the id the next page starts at.
Scroll(points, offset, limit) ==
    LET from == SelectSeq(SortById(points), LAMBDA pt : offset = Null \/ pt.id >= offset)
        n == IF Len(from) < limit THEN Len(from) ELSE limit
    IN  [next_page_offset |-> IF Len(from) > limit THEN from[limit + 1].id ELSE Null,
         points |-> [k \in 1..n |-> [id |-> from[k].id, payload |-> from[k].payload]]]

\* The ids to delete picked by the numeric id of the document.
DocPointsToDeleteByNumericId(fullDocPoints, documentId) ==
    LET mine == SelectSeq(fullDocPoints, LAMBDA pt : pt.id = stringToNumericId(documentId))
    IN  [k \in 1..Len(mine) |-> mine[k].id]

\* .filter((p) => p.payload?.documentId === documentId).map((p) => p.id)
DocPointsToDelete(fullDocPoints, documentId) ==
    LET mine == SelectSeq(fullDocPoints, LAMBDA pt : pt.payload.documentId = documentId)
    IN  [k \in 1..Len(mine) |-> mine[k].id]

\* Only the first id found is picked.
ChunkPointsToDeleteFirstOnly(chunkPoints, documentId) ==
    LET mine == SelectSeq(chunkPoints, LAMBDA pt : pt.payload.document_id = documentId)
    IN  [k \in 1..(IF Len(mine) > 0 THEN 1 ELSE 0) |-> mine[k].id]

\* .filter((p) => p.payload?.document_id === documentId).map((p) => p.id)
ChunkPointsToDelete(chunkPoints, documentId) ==
    LET mine == SelectSeq(chunkPoints, LAMBDA pt : pt.payload.document_id = documentId)
    IN  [k \in 1..Len(mine) |-> mine[k].id]

\* A slice that takes one id more.
SliceOneMore(ids, i, batchSize) ==
    SubSeq(ids, i + 1, IF i + batchSize + 1 < Len(ids) THEN i + batchSize + 1 ELSE Len(ids))

\* chunkPointsToDelete.slice(i, i + batchSize)
Slice(ids, i, batchSize) ==
    SubSeq(ids, i + 1, IF i + batchSize < Len(ids) THEN i + batchSize ELSE Len(ids))

Range(seq) == {seq[k] : k \in 1..Len(seq)}

DeleteSucceeded(documentId) ==
    [message |-> <<"Document ", documentId, " deleted successfully">>, success |-> TRUE]

\* The outer catch: { success: false, error: error.message }
DeleteCatch(error) == [error |-> error, success |-> FALSE]

Delete_Start(p, documentId) ==
    Begin(p, [documentId |-> documentId, op |-> "deleteFullDocument"],
          "df_scrollFull",
          [batches |-> <<>>,
           chunkPoints |-> <<>>,
           chunkPointsToDelete |-> <<>>,
           fullDocPoints |-> <<>>,
           hasMore |-> TRUE,
           i |-> 0,
           offset |-> Null,
           threw |-> <<>>])

\* The locals as the chunk phase sets them out: offset = null; hasMore = true.
ChunkPhase(locals) == [locals EXCEPT !.offset = Null, !.hasMore = TRUE]

\* One round of the loop over full_documents; after the last round the ids to
\* delete are picked.  An error is logged and the chunk phase begins.
Delete_ScrollFull(p) ==
    /\ pc[p] = "df_scrollFull"
    /\ \E ok \in BOOLEAN :
         IF ok /\ full_documents.exists
         THEN LET scrollResult == Scroll(full_documents.points, loc[p].offset, ScrollLimit)
                  l == IF Len(scrollResult.points) > 0
                       THEN [loc[p] EXCEPT
                               !.fullDocPoints = @ \o scrollResult.points,
                               !.offset = scrollResult.next_page_offset,
                               !.hasMore = scrollResult.next_page_offset # Null]
                       ELSE [loc[p] EXCEPT !.hasMore = FALSE]
              IN  IF l.hasMore /\ Len(l.fullDocPoints) < FullDocCap
                  THEN Goto(p, "df_scrollFull", l, <<"scroll full_documents">>)
                  ELSE IF Len(DocPointsToDelete(l.fullDocPoints, call[p].documentId)) > 0
                  THEN Goto(p, "df_deleteFull", l, <<"scroll full_documents">>)
                  ELSE Goto(p, "df_scrollChunks", ChunkPhase(l), <<"scroll full_documents">>)
         ELSE Goto(p, "df_scrollChunks",
                   ChunkPhase(Threw(loc[p], "scroll full_documents",
                                    IF full_documents.exists THEN ErrBackend ELSE ErrNotFound)),
                   <<"scroll full_documents">>)
    /\ UNCHANGED <<documents, full_documents, clock>>

\* A full-document phase whose delete error ends the call.
Delete_DeleteFullFatal(p) ==
    /\ pc[p] = "df_deleteFull"
    /\ \E ok \in BOOLEAN :
         IF ok /\ full_documents.exists
         THEN /\ full_documents' =
                   [full_documents EXCEPT
                      !.points = DeletePoints(@, Range(DocPointsToDelete(
                                     loc[p].fullDocPoints, call[p].documentId)))]
              /\ Goto(p, "df_scrollChunks", ChunkPhase(loc[p]), <<"delete full_documents">>)
         ELSE /\ UNCHANGED full_documents
              /\ LET error == IF full_documents.exists THEN ErrBackend ELSE ErrNotFound
                 IN  Finish(p, DeleteCatch(error),
                            Threw(loc[p], "delete full_documents", error),
                            <<"delete full_documents">>)
    /\ UNCHANGED <<documents, clock>>

\* await qdrantClient.delete("full_documents", { points: docPointsToDelete })
Delete_DeleteFull(p) ==
    /\ pc[p] = "df_deleteFull"
    /\ \E ok \in BOOLEAN :
         IF ok /\ full_documents.exists
         THEN /\ full_documents' =
                   [full_documents EXCEPT
                      !.points = DeletePoints(@, Range(DocPointsToDelete(
                                     loc[p].fullDocPoints, call[p].documentId)))]
              /\ Goto(p, "df_scrollChunks", ChunkPhase(loc[p]), <<"delete full_documents">>)
         ELSE /\ UNCHANGED full_documents
              /\ Goto(p, "df_scrollChunks",
                      ChunkPhase(Threw(loc[p], "delete full_documents",
                                       IF full_documents.exists THEN ErrBackend
                                       ELSE ErrNotFound)),
                      <<"delete full_documents">>)
    /\ UNCHANGED <<documents, clock>>

\* One round of the loop over documents; after the last round the ids to
\* delete are picked.  An error is thrown again and reaches the outer catch.
Delete_ScrollChunks(p) ==
    /\ pc[p] = "df_scrollChunks"
    /\ \E ok \in BOOLEAN :
         IF ok /\ documents.exists
         THEN LET scrollResult == Scroll(documents.points, loc[p].offset, ScrollLimit)
                  l == IF Len(scrollResult.points) > 0
                       THEN [loc[p] EXCEPT
                               !.chunkPoints = @ \o scrollResult.points,
                               !.offset = scrollResult.next_page_offset,
                               !.hasMore = scrollResult.next_page_offset # Null]
                       ELSE [loc[p] EXCEPT !.hasMore = FALSE]
                  ids == ChunkPointsToDelete(l.chunkPoints, call[p].documentId)
              IN  IF l.hasMore /\ Len(l.chunkPoints) < ChunkCap
                  THEN Goto(p, "df_scrollChunks", l, <<"scroll documents">>)
                  ELSE IF Len(ids) > 0
                  THEN Goto(p, "df_deleteChunks",
                            [l EXCEPT !.chunkPointsToDelete = ids, !.i = 0],
                            <<"scroll documents">>)
                  ELSE Finish(p, DeleteSucceeded(call[p].documentId), l,
                              <<"scroll documents">>)
         ELSE LET error == IF documents.exists THEN ErrBackend ELSE ErrNotFound
              IN  Finish(p, DeleteCatch(error), Threw(loc[p], "scroll documents", error),
                         <<"scroll documents">>)
    /\ UNCHANGED <<documents, full_documents, clock>>

\* One round of the loop over the batches:
\* await qdrantClient.delete(collectionName, { points: batch })
\* loc.batches lists the batches handed to delete so far.
Delete_DeleteChunks(p) ==
    /\ pc[p] = "df_deleteChunks"
    /\ \E ok \in BOOLEAN :
         LET batch == Slice(loc[p].chunkPointsToDelete, loc[p].i, BatchSize)
             issued == [loc[p] EXCEPT !.batches = Append(@, batch)]
         IN  IF ok /\ documents.exists
             THEN LET l == [issued EXCEPT !.i = @ + BatchSize]
                  IN  /\ documents' = [documents EXCEPT
                                          !.points = DeletePoints(@, Range(batch))]
                      /\ IF l.i < Len(l.chunkPointsToDelete)
                         THEN Goto(p, "df_deleteChunks", l, <<"delete documents">>)
                         ELSE Finish(p, DeleteSucceeded(call[p].documentId), l,
                                     <<"delete documents">>)
             ELSE /\ UNCHANGED documents
                  /\ LET error == IF documents.exists THEN ErrBackend ELSE ErrNotFound
                     IN  Finish(p, DeleteCatch(error),
                                Threw(issued, "delete documents", error),
                                <<"delete documents">>)
    /\ UNCHANGED <<full_documents, clock>>

DeleteStep(p) ==
    \/ Delete_ScrollFull(p)
    \/ Delete_DeleteFull(p)
    \/ Delete_ScrollChunks(p)
    \/ Delete_DeleteChunks(p)

-----------------------------------------------------------------------------
(* getFullDocument(documentId) *)

\* A lookup by the numeric id of the point.
FullDocLookupByNumericId(points, documentId) ==
    LET found == {pt \in points : pt.id = stringToNumericId(documentId)}
    IN  Scroll(found, Null, 1).points

\* scroll("full_documents", { filter: { must: [{ key: "documentId",
\* match: { value: documentId } }] }, limit: 1, ... }).points
FullDocLookup(points, documentId) ==
    LET params == [filter |-> [must |-> <<MatchCondition("documentId", documentId)>>]]
    IN  Scroll(Matching(points, params), Null, 1).points

GetFull_Start(p, documentId) ==
    Begin(p, [documentId |-> documentId, op |-> "getFullDocument"], "gf_scroll",
          [threw |-> <<>>])

\* The scroll and the two returns; null is NoValue.  The catch returns null.
GetFull_Scroll(p) ==
    /\ pc[p] = "gf_scroll"
    /\ \E ok \in BOOLEAN :
         IF ok /\ full_documents.exists
         THEN LET found == FullDocLookup(full_documents.points, call[p].documentId)
              IN  Finish(p, IF Len(found) = 0 THEN NoValue ELSE found[1].payload,
                         loc[p], <<"scroll">>)
         ELSE Finish(p, NoValue,
                     Threw(loc[p], "scroll",
                           IF full_documents.exists THEN ErrBackend ELSE ErrNotFound),
                     <<"scroll">>)
    /\ UNCHANGED <<documents, full_documents, clock>>

-----------------------------------------------------------------------------
(* listAllFullDocuments() *)

\* new Date(uploadDate).getTime(), in hours.
GetTime(uploadDate) ==
    LET iso == ToISOString(uploadDate) IN (iso[1] * 31 + iso[2]) * 24 + iso[3]

\* .sort((a, b) => new Date(b.uploadDate).getTime() - new Date(a.uploadDate).getTime()):
\* newest first, entries of the same time in the order they had.
RECURSIVE SortNewestFirst(_)
SortNewestFirst(entries) ==
    IF entries = <<>> THEN <<>>
    ELSE LET n == Len(entries)
             sorted == SortNewestFirst(SubSeq(entries, 1, n - 1))
             k == Cardinality({j \in 1..(n - 1) :
                                 GetTime(sorted[j].uploadDate) >= GetTime(entries[n].uploadDate)})
         IN  SubSeq(sorted, 1, k) \o <<entries[n]>> \o SubSeq(sorted, k + 1, n - 1)

\* A summary that keeps the content.
FullDocSummaryWithContent(pt) == pt.payload

\* The entry made of a scanned point: the payload without fullContent.
FullDocSummary(pt) ==
    [chunkCount |-> pt.payload.chunkCount,
     documentId |-> pt.payload.documentId,
     embeddingModel |-> pt.payload.embeddingModel,
     fileSize |-> pt.payload.fileSize,
     fileType |-> pt.payload.fileType,
     filename |-> pt.payload.filename,
     uploadDate |-> pt.payload.uploadDate]

ListFull_Start(p) ==
    Begin(p, [op |-> "listAllFullDocuments"], "lf_getCollection",
          [allPoints |-> <<>>, hasMore |-> TRUE, offset |-> Null, threw |-> <<>>])

\* try { await getCollection("full_documents") } catch { return the empty list }
ListFull_GetCollection(p) ==
    /\ pc[p] = "lf_getCollection"
    /\ \E ok \in BOOLEAN :
         IF ok /\ full_documents.exists
         THEN Goto(p, "lf_scroll", loc[p], <<"getCollection">>)
         ELSE Finish(p, [documents |-> <<>>, success |-> TRUE, total |-> 0],
                     Threw(loc[p], "getCollection",
                           IF full_documents.exists THEN ErrBackend ELSE ErrNotFound),
                     <<"getCollection">>)
    /\ UNCHANGED <<documents, full_documents, clock>>

\* One round of while (hasMore && allPoints.length < 1000); after the last
\* round the list is returned.  An error reaches the outer catch.
ListFull_Scroll(p) ==
    /\ pc[p] = "lf_scroll"
    /\ \E ok \in BOOLEAN :
         IF ok /\ full_documents.exists
         THEN LET scrollResult == Scroll(full_documents.points, loc[p].offset, ScrollLimit)
                  l == IF Len(scrollResult.points) > 0
                       THEN [loc[p] EXCEPT
                               !.allPoints = @ \o scrollResult.points,
                               !.offset = scrollResult.next_page_offset,
                               !.hasMore = scrollResult.next_page_offset # Null]
                       ELSE [loc[p] EXCEPT !.hasMore = FALSE]
              IN  IF l.hasMore /\ Len(l.allPoints) < FullDocCap
                  THEN Goto(p, "lf_scroll", l, <<"scroll">>)
                  ELSE Finish(p,
                              [documents |-> SortNewestFirst([k \in 1..Len(l.allPoints) |->
                                             FullDocSummary(l.allPoints[k])]),
                               success |-> TRUE,
                               total |-> Len(l.allPoints)],
                              l, <<"scroll">>)
         ELSE LET error == IF full_documents.exists THEN ErrBackend ELSE ErrNotFound
              IN  Finish(p, [documents |-> <<>>,
                             error |-> error,
                             success |-> FALSE,
                             total |-> 0],
                         Threw(loc[p], "scroll", error), <<"scroll">>)
    /\ UNCHANGED <<documents, full_documents, clock>>

FullDocReadStep(p) ==
    \/ GetFull_Scroll(p)
    \/ ListFull_GetCollection(p)
    \/ ListFull_Scroll(p)

-----------------------------------------------------------------------------
(* getAllDocuments() and getDocumentsByDateRange(dateFrom, dateTo) *)

\* Grouping that keeps the uploadDate of the first point of a document.
GroupedKeepFirstDate(allPoints, n) ==
    LET ids == {allPoints[k].payload.document_id : k \in 1..n} \ {""}
        first(d) == CHOOSE k \in 1..n :
                       /\ allPoints[k].payload.document_id = d
                       /\ \A j \in 1..(k - 1) : allPoints[j].payload.document_id # d
        order == SortById({[document_id |-> d, id |-> first(d)] : d \in ids})
    IN  [i \in 1..Len(order) |->
            LET pt == allPoints[order[i].id]
            IN  [chunks_count |-> Cardinality({k \in 1..n :
                                  allPoints[k].payload.document_id = pt.payload.document_id}),
                 document_id |-> pt.payload.document_id,
                 embedding_model |-> pt.payload.embedding_model,
                 filename |-> pt.payload.filename,
                 uploadDate |-> pt.payload.uploadDate]]

\* documentsMap after the first n points of allPoints, in insertion order: a
\* point without document_id is skipped, the first point of a document makes
\* its entry, a later one counts and lowers uploadDate when its own is smaller
\* as a string.
RECURSIVE Grouped(_, _)
Grouped(allPoints, n) ==
    IF n = 0 THEN <<>>
    ELSE LET docs == Grouped(allPoints, n - 1)
             payload == allPoints[n].payload
             docId == payload.document_id
             at == {k \in 1..Len(docs) : docs[k].document_id = docId}
         IN  IF docId = "" THEN docs
             ELSE IF at = {}
             THEN Append(docs, [chunks_count |-> 1,
                                document_id |-> docId,
                                embedding_model |-> payload.embedding_model,
                                filename |-> payload.filename,
                                uploadDate |-> payload.uploadDate])
             ELSE LET k == CHOOSE k \in at : TRUE
                      earlier == /\ payload.uploadDate # <<>>
                                 /\ payload.uploadDate # docs[k].uploadDate
                                 /\ StrLeq(payload.uploadDate, docs[k].uploadDate)
                  IN  [docs EXCEPT ![k] =
                          [@ EXCEPT !.chunks_count = @ + 1,
                                    !.uploadDate = IF earlier THEN payload.uploadDate ELSE @]]

\* The result of getAllDocuments for the scanned points.
AllDocuments(allPoints) ==
    LET docs == Grouped(allPoints, Len(allPoints))
    IN  [documents |-> SortNewestFirst(docs), success |-> TRUE, total |-> Len(docs)]

ListFailed(error) == [documents |-> <<>>, error |-> error, success |-> FALSE, total |-> 0]

\* new Date(doc.uploadDate) >= fromDate and <= toDate; a comparison with an
\* Invalid Date is false.
NotBefore(uploadDate, dateFrom) ==
    ValidDateString(dateFrom) /\ GetTime(uploadDate) >= GetTime(dateFrom)

NotAfter(uploadDate, dateTo) ==
    ValidDateString(dateTo) /\ GetTime(uploadDate) <= GetTime(dateTo)

\* A filter that forgets the upper bound.
ByDateRangeFromOnly(allDocs, dateFrom, dateTo) ==
    LET filtered == SelectSeq(allDocs.documents,
                              LAMBDA doc : dateFrom = <<>> \/ NotBefore(doc.uploadDate, dateFrom))
    IN  [documents |-> filtered, success |-> TRUE, total |-> Len(filtered)]

\* What getDocumentsByDateRange makes of the result allDocs of getAllDocuments.
ByDateRange(allDocs, dateFrom, dateTo) ==
    IF ~allDocs.success THEN allDocs
    ELSE LET from == SelectSeq(allDocs.documents,
                               LAMBDA doc : dateFrom = <<>> \/ NotBefore(doc.uploadDate, dateFrom))
             filtered == SelectSeq(from,
                                   LAMBDA doc : dateTo = <<>> \/ NotAfter(doc.uploadDate, dateTo))
         IN  [documents |-> filtered, success |-> TRUE, total |-> Len(filtered)]

\* The value the running function returns when getAllDocuments has `allDocs`.
GetAllReturn(c, allDocs) ==
    IF c.op = "getDocumentsByDateRange" THEN ByDateRange(allDocs, c.dateFrom, c.dateTo)
    ELSE allDocs

GetAll_Start(p) ==
    Begin(p, [op |-> "getAllDocuments"], "ga_getCollection",
          [allDocs |-> NoValue,
           allPoints |-> <<>>,
           hasMore |-> TRUE,
           offset |-> Null,
           threw |-> <<>>])

\* const allDocs = await getAllDocuments() is the first thing it does.
ByDateRange_Start(p, dateFrom, dateTo) ==
    Begin(p, [dateFrom |-> dateFrom, dateTo |-> dateTo, op |-> "getDocumentsByDateRange"],
          "ga_getCollection",
          [allDocs |-> NoValue,
           allPoints |-> <<>>,
           hasMore |-> TRUE,
           offset |-> Null,
           threw |-> <<>>])

\* try { await getCollection("documents") } catch { return the empty list }
GetAll_GetCollection(p) ==
    /\ pc[p] = "ga_getCollection"
    /\ \E ok \in BOOLEAN :
         IF ok /\ documents.exists
         THEN Goto(p, "ga_scroll", loc[p], <<"getCollection">>)
         ELSE LET allDocs == [documents |-> <<>>, success |-> TRUE, total |-> 0]
              IN  Finish(p, GetAllReturn(call[p], allDocs),
                         Threw([loc[p] EXCEPT !.allDocs = allDocs], "getCollection",
                               IF documents.exists THEN ErrBackend ELSE ErrNotFound),
                         <<"getCollection">>)
    /\ UNCHANGED <<documents, full_documents, clock>>

\* One round of while (hasMore && allPoints.length < 10000); after the last
\* round the points are grouped.  An error reaches the outer catch.
GetAll_Scroll(p) ==
    /\ pc[p] = "ga_scroll"
    /\ \E ok \in BOOLEAN :
         IF ok /\ documents.exists
         THEN LET scrollResult == Scroll(documents.points, loc[p].offset, ScrollLimit)
                  l == IF Len(scrollResult.points) > 0
                       THEN [loc[p] EXCEPT
                               !.allPoints = @ \o scrollResult.points,
                               !.offset = scrollResult.next_page_offset,
                               !.hasMore = scrollResult.next_page_offset # Null]
                       ELSE [loc[p] EXCEPT !.hasMore = FALSE]
                  allDocs == AllDocuments(l.allPoints)
              IN  IF l.hasMore /\ Len(l.allPoints) < ChunkCap
                  THEN Goto(p, "ga_scroll", l, <<"scroll">>)
                  ELSE Finish(p, GetAllReturn(call[p], allDocs),
                              [l EXCEPT !.allDocs = allDocs], <<"scroll">>)
         ELSE LET error == IF documents.exists THEN ErrBackend ELSE ErrNotFound
                  allDocs == ListFailed(error)
              IN  Finish(p, GetAllReturn(call[p], allDocs),
                         Threw([loc[p] EXCEPT !.allDocs = allDocs], "scroll", error),
                         <<"scroll">>)
    /\ UNCHANGED <<documents, full_documents, clock>>

GetAllStep(p) ==
    \/ GetAll_GetCollection(p)
    \/ GetAll_Scroll(p)

-----------------------------------------------------------------------------
(* POST /api/summarize, the ingest route: the handler runs as request r and
   awaits storeFullDocument and then storeChunksWithEmbeddings, which run as
   request p. *)

\* splitter.splitText(textContent) for the texts of the model.
SplitText(textContent) ==
    CASE textContent = "y"  -> <<"y">>
      [] textContent = "xy" -> <<"x", "y">>
      [] OTHER              -> <<>>

\* Buffer.byteLength(textContent, "utf8") for the texts of the model.
ByteLength(textContent) ==
    CASE textContent = "y"  -> 1
      [] textContent = "xy" -> 2
      [] OTHER              -> 0

\* The document ids found in the two collections.
StoredDocumentIds ==
    {pt.payload.document_id : pt \in documents.points}
        \cup {pt.payload.documentId : pt \in full_documents.points}

\* filename.replace(/\W+/g, "_") + "_" + Date.now().toString(36) + "_" +
\* Math.random().toString(36).slice(2, 8): an id no earlier ingestion has
\* generated.
GeneratedDocumentIds == {"BB", "C"} \ StoredDocumentIds

\* The handler has validated and split the text, generated documentId and
\* read uploadDate.
Route_Start(r, filename, textContent, type) ==
    /\ \A q \in Procs : pc[q] = "idle"
    /\ nops + 2 <= MaxOps
    /\ Len(SplitText(textContent)) > 0
    /\ \E documentId \in GeneratedDocumentIds :
         /\ pc' = [pc EXCEPT ![r] = "rt_storeFullDocument"]
         /\ call' = [call EXCEPT ![r] = [filename |-> filename,
                                         op |-> "POST",
                                         textContent |-> textContent,
                                         type |-> type]]
         /\ loc' = [loc EXCEPT ![r] = [chunks |-> SplitText(textContent),
                                       documentId |-> documentId,
                                       documentStoreResult |-> NoValue,
                                       embeddingResult |-> NoValue,
                                       fileSize |-> ByteLength(textContent),
                                       uploadDate |-> NowISO(clock)]]
    /\ ret' = [ret EXCEPT ![r] = NoValue]
    /\ trace' = [trace EXCEPT ![r] = <<>>]
    /\ pre' = [pre EXCEPT ![r] = [documents |-> documents,
                                  full_documents |-> full_documents]]
    /\ clock' = clock + 1
    /\ UNCHANGED <<documents, full_documents, credential, nops>>

\* A handler that stores the chunks first.
Route_CallStoreChunksFirst(r, p) ==
    /\ pc[r] = "rt_storeFullDocument"
    /\ StoreChunks_Start(p, loc[r].chunks, loc[r].documentId, call[r].filename,
                         loc[r].uploadDate, call[r].type)

\* storeFullDocument(documentId, filename, textContent, type, fileSize,
\*                   chunks.length, uploadDate) is called.
Route_CallStoreFull(r, p) ==
    /\ pc[r] = "rt_storeFullDocument"
    /\ StoreFull_Start(p, loc[r].documentId, call[r].filename, call[r].textContent,
                       call[r].type, loc[r].fileSize, Len(loc[r].chunks),
                       loc[r].uploadDate)

\* The request p hands its result to the handler r, which goes on to `label`.
Resume(r, p, label, locals, value, awaited) ==
    /\ pc' = [pc EXCEPT ![r] = label, ![p] = "idle"]
    /\ call' = [call EXCEPT ![p] = Idle]
    /\ loc' = [loc EXCEPT ![r] = locals, ![p] = NoValue]
    /\ ret' = [ret EXCEPT ![r] = value, ![p] = NoValue]
    /\ trace' = [trace EXCEPT ![r] = Append(@, awaited), ![p] = <<>>]
    /\ pre' = [pre EXCEPT ![p] = NoValue]
    /\ UNCHANGED <<documents, full_documents, credential, clock, nops>>

\* The response of the handler.
IngestResponse(filename, locals) ==
    [chunksCount |-> Len(locals.chunks),
     documentId |-> locals.documentId,
     documentStoreStatus |-> locals.documentStoreResult,
     embeddingStatus |-> locals.embeddingResult,
     fileSize |-> locals.fileSize,
     filename |-> filename,
     previewChunks |-> SubSeq(locals.chunks, 1,
                       IF Len(locals.chunks) < 3 THEN Len(locals.chunks) ELSE 3),
     success |-> locals.embeddingResult.success /\ locals.documentStoreResult.success]

\* A handler that answers at once when the document could not be stored.
Route_StoreFullReturnedStopOnFailure(r, p) ==
    /\ pc[r] = "rt_storeFullDocument"
    /\ pc[p] = "done"
    /\ call[p].op = "storeFullDocument"
    /\ LET l == [loc[r] EXCEPT !.documentStoreResult = ret[p]] IN
         IF ret[p].success
         THEN Resume(r, p, "rt_storeChunks", l, NoValue, "storeFullDocument")
         ELSE Resume(r, p, "done", l,
                     IngestResponse(call[r].filename,
                                    [l EXCEPT !.embeddingResult = ret[p]]),
                     "storeFullDocument")

\* const documentStoreResult = await storeFullDocument(...)
Route_StoreFullReturned(r, p) ==
    /\ pc[r] = "rt_storeFullDocument"
    /\ pc[p] = "done"
    /\ call[p].op = "storeFullDocument"
    /\ Resume(r, p, "rt_storeChunks", [loc[r] EXCEPT !.documentStoreResult = ret[p]],
              NoValue, "storeFullDocument")

\* storeChunksWithEmbeddings(chunks, documentId, filename, uploadDate, type)
\* is called.
Route_CallStoreChunks(r, p) ==
    /\ pc[r] = "rt_storeChunks"
    /\ StoreChunks_Start(p, loc[r].chunks, loc[r].documentId, call[r].filename,
                         loc[r].uploadDate, call[r].type)

\* const embeddingResult = await storeChunksWithEmbeddings(...) and
\* return NextResponse.json({...})
Route_Respond(r, p) ==
    /\ pc[r] = "rt_storeChunks"
    /\ pc[p] = "done"
    /\ call[p].op = "storeChunksWithEmbeddings"
    /\ LET l == [loc[r] EXCEPT !.embeddingResult = ret[p]] IN
         Resume(r, p, "done", l, IngestResponse(call[r].filename, l),
                "storeChunksWithEmbeddings")

RouteStep(r, p) ==
    \/ Route_CallStoreFull(r, p)
    \/ Route_StoreFullReturned(r, p)
    \/ Route_CallStoreChunks(r, p)
    \/ Route_Respond(r, p)

-----------------------------------------------------------------------------
(* Ingestion: calls of storeChunksWithEmbeddings and storeFullDocument, one
   at a time, against a backend whose "documents" collection is missing,
   empty, or left over from an earlier embedding model. *)

\* The calls of storeChunksWithEmbeddings made: one or two chunks, with and
\* without uploadDate and fileType.
ChunkCalls ==
    { [chunks |-> <<"x">>,
       documentId |-> "Aa",
       fileType |-> "",
       filename |-> "a.txt",
       uploadDate |-> <<>>],
      [chunks |-> <<"x", "y">>,
       documentId |-> "Aa",
       fileType |-> "pdf",
       filename |-> "a.txt",
       uploadDate |-> <<6, 1, 12>>],
      [chunks |-> <<"y", "x">>,
       documentId |-> "BB",
       fileType |-> "pdf",
       filename |-> "b.pdf",
       uploadDate |-> <<>>] }

\* The calls of storeFullDocument made; "Aa" and "BB" have the same numeric id.
FullDocCalls ==
    { [chunkCount |-> 1,
       documentId |-> "Aa",
       fileSize |-> 1,
       fileType |-> "text",
       filename |-> "a.txt",
       fullContent |-> "x",
       uploadDate |-> <<>>],
      [chunkCount |-> 2,
       documentId |-> "Aa",
       fileSize |-> 2,
       fileType |-> "pdf",
       filename |-> "a.txt",
       fullContent |-> "xy",
       uploadDate |-> <<6, 1, 12>>],
      [chunkCount |-> 2,
       documentId |-> "BB",
       fileSize |-> 2,
       fileType |-> "pdf",
       filename |-> "b.pdf",
       fullContent |-> "yx",
       uploadDate |-> <<>>] }

StartStoreChunks(p) ==
    \E c \in ChunkCalls :
        StoreChunks_Start(p, c.chunks, c.documentId, c.filename, c.uploadDate, c.fileType)

StartStoreFull(p) ==
    \E c \in FullDocCalls :
        StoreFull_Start(p, c.documentId, c.filename, c.fullContent, c.fileType,
                        c.fileSize, c.chunkCount, c.uploadDate)

Next ==
    \/ StartStoreChunks(1)
    \/ StartStoreFull(1)
    \/ StoreChunksStep(1)
    \/ StoreFullStep(1)
    \/ Return(1)

Spec == Init /\ [][Next]_vars

-----------------------------------------------------------------------------
(* Search: calls of searchRelevantChunks, one at a time, against a backend
   whose "documents" collection is missing or holds the chunks of three
   documents ingested with the upload dates given. *)

\* The points storeChunksWithEmbeddings stored for a one-chunk document.
StoredChunk(id, documentId, filename, uploadDate, fileType, content) ==
    ChunkPoints(<<content>>, documentId, filename, uploadDate, fileType,
                <<Embedding(content)>>, <<id>>)[1]

\* Chunks uploaded on 2024-01-01, 2024-06-01 and 2024-12-01.
ChunksByMonth ==
    { StoredChunk(1, "Aa", "a.txt", <<1, 1>>, "", "jan"),
      StoredChunk(2, "BB", "b.pdf", <<6, 1>>, "pdf", "jun"),
      StoredChunk(3, "C", "a.txt", <<12, 1>>, "pdf", "dec") }

\* Chunks with full timestamps, on and next to the range bounds used below;
\* one of them has an empty content.
ChunksByHour ==
    { StoredChunk(1, "Aa", "a.txt", <<5, 1, 0>>, "", "may"),
      StoredChunk(2, "BB", "b.pdf", <<12, 31, 0>>, "pdf", "eve"),
      StoredChunk(3, "C", "a.txt", <<12, 31, 5>>, "pdf", "") }

InitSearch ==
    /\ documents \in
         { Missing,
           [exists |-> TRUE, points |-> ChunksByMonth, size |-> ExpectedDim],
           [exists |-> TRUE, points |-> ChunksByHour, size |-> ExpectedDim] }
    /\ full_documents = Missing
    /\ credential \in BOOLEAN
    /\ pc = [p \in Procs |-> "idle"]
    /\ call = [p \in Procs |-> Idle]
    /\ loc = [p \in Procs |-> NoValue]
    /\ ret = [p \in Procs |-> NoValue]
    /\ trace = [p \in Procs |-> <<>>]
    /\ pre = [p \in Procs |-> NoValue]
    /\ clock = 0
    /\ nops = 0

\* options absent.
NoOptions == [dateFrom |-> <<>>, dateTo |-> <<>>, documentId |-> "", filename |-> ""]

\* The options passed: none of the criteria, each alone, several, a range
\* that is open on one side, and a dateFrom that is no date.
SearchOptions ==
    { NoOptions,
      [dateFrom |-> <<5, 1>>, dateTo |-> <<12, 31>>, documentId |-> "", filename |-> ""],
      [dateFrom |-> <<5, 1>>, dateTo |-> <<>>, documentId |-> "", filename |-> ""],
      [dateFrom |-> <<>>, dateTo |-> <<12, 31, 0>>, documentId |-> "", filename |-> ""],
      [dateFrom |-> <<>>, dateTo |-> <<>>, documentId |-> "BB", filename |-> ""],
      [dateFrom |-> <<>>, dateTo |-> <<>>, documentId |-> "", filename |-> "a.txt"],
      [dateFrom |-> <<1, 1>>,
       dateTo |-> <<6, 1>>,
       documentId |-> "Aa",
       filename |-> "a.txt"],
      [dateFrom |-> <<6, 1, 12>>, dateTo |-> <<>>, documentId |-> "", filename |-> "a.txt"],
      [dateFrom |-> <<13, 1>>, dateTo |-> <<>>, documentId |-> "", filename |-> ""] }

StartSearch(p) ==
    \E query \in {"jun", "q"}, topK \in {1, 5}, includeMetadata \in BOOLEAN,
       hasOptions \in BOOLEAN :
        \E options \in IF hasOptions THEN SearchOptions ELSE {NoOptions} :
            Search_Start(p, query, topK, hasOptions, options, includeMetadata)

NextSearch ==
    \/ StartSearch(1)
    \/ SearchStep(1)
    \/ Return(1)

SpecSearch == InitSearch /\ [][NextSearch]_vars

-----------------------------------------------------------------------------
(* Deletion: calls of deleteFullDocument, one at a time, against a backend
   that holds the chunks and the records of ingested documents. *)

\* The record storeFullDocument stored for a document.
StoredRecord(documentId, filename, fullContent, chunkCount, uploadDate) ==
    FullDocPoint(documentId, filename, fullContent, "text", chunkCount, chunkCount,
                 uploadDate)

\* The points storeChunksWithEmbeddings stored for a document, under `ids`.
StoredChunks(ids, documentId, filename, uploadDate, chunks) ==
    Range(ChunkPoints(chunks, documentId, filename, uploadDate, "text",
                      [k \in 1..Len(chunks) |-> Embedding(chunks[k])], ids))

InitDelete ==
    /\ documents \in
         { Missing,
           [exists |-> TRUE,
            points |-> StoredChunks(<<1, 2, 3>>, "Aa", "a.txt", <<6, 1, 12>>,
                       <<"x", "y", "z">>),
            size |-> ExpectedDim],
           [exists |-> TRUE,
            points |-> StoredChunks(<<3, 1>>, "Aa", "a.txt", <<6, 1, 12>>, <<"x", "y">>)
                       \cup StoredChunks(<<2>>, "C", "c.txt", <<7, 1, 0>>, <<"z">>),
            size |-> ExpectedDim] }
    /\ full_documents \in
         { Missing,
           [exists |-> TRUE,
            points |-> {StoredRecord("Aa", "a.txt", "xy", 2, <<6, 1, 12>>),
                       StoredRecord("C", "c.txt", "z", 1, <<7, 1, 0>>)},
            size |-> FullDocDim] }
    /\ credential \in BOOLEAN
    /\ pc = [p \in Procs |-> "idle"]
    /\ call = [p \in Procs |-> Idle]
    /\ loc = [p \in Procs |-> NoValue]
    /\ ret = [p \in Procs |-> NoValue]
    /\ trace = [p \in Procs |-> <<>>]
    /\ pre = [p \in Procs |-> NoValue]
    /\ clock = 0
    /\ nops = 0

StartDelete(p) ==
    \E documentId \in {"Aa", "BB", "C"} : Delete_Start(p, documentId)

NextDelete ==
    \/ StartDelete(1)
    \/ DeleteStep(1)
    \/ Return(1)

SpecDelete == InitDelete /\ [][NextDelete]_vars

-----------------------------------------------------------------------------
(* The full-document store: calls of storeFullDocument, getFullDocument and
   listAllFullDocuments, one at a time, against a full_documents collection
   that is missing, holds one record, or holds more records than the cap. *)

InitFullDoc ==
    /\ documents = Missing
    /\ full_documents \in
         { Missing,
           [exists |-> TRUE,
            points |-> {StoredRecord("Aa", "a.txt", "x", 1, <<5, 1, 0>>)},
            size |-> FullDocDim],
           [exists |-> TRUE,
            points |-> {StoredRecord("Aa", "a.txt", "x", 1, <<5, 1, 0>>),
                       StoredRecord("C", "c.txt", "z", 1, <<7, 1, 0>>),
                       StoredRecord("D", "d.txt", "y", 1, <<6, 1>>),
                       StoredRecord("E", "e.txt", "x", 1, <<6, 1, 0>>),
                       StoredRecord("F", "f.txt", "z", 1, <<12, 1, 5>>)},
            size |-> FullDocDim] }
    /\ credential = TRUE
    /\ pc = [p \in Procs |-> "idle"]
    /\ call = [p \in Procs |-> Idle]
    /\ loc = [p \in Procs |-> NoValue]
    /\ ret = [p \in Procs |-> NoValue]
    /\ trace = [p \in Procs |-> <<>>]
    /\ pre = [p \in Procs |-> NoValue]
    /\ clock = 0
    /\ nops = 0

StartGetFull(p) == \E documentId \in {"Aa", "BB", "C"} : GetFull_Start(p, documentId)

NextFullDoc ==
    \/ StartStoreFull(1)
    \/ StoreFullStep(1)
    \/ StartGetFull(1)
    \/ ListFull_Start(1)
    \/ FullDocReadStep(1)
    \/ Return(1)

SpecFullDoc == InitFullDoc /\ [][NextFullDoc]_vars

-----------------------------------------------------------------------------
(* Listing: calls of getAllDocuments and getDocumentsByDateRange, one at a
   time, against a "documents" collection that is missing, holds one
   three-chunk document, holds documents ingested more than once and with an
   empty document id, or holds more points than the cap. *)

InitList ==
    /\ documents \in
         { Missing,
           [exists |-> TRUE,
            points |-> StoredChunks(<<1, 2, 3>>, "Aa", "a.txt", <<6, 1, 12>>,
                       <<"x", "y", "z">>),
            size |-> ExpectedDim],
           [exists |-> TRUE,
            points |-> StoredChunks(<<1>>, "Aa", "a.txt", <<6, 1, 12>>, <<"x">>)
                       \cup StoredChunks(<<2>>, "C", "c.txt", <<7, 1, 0>>, <<"z">>)
                       \cup StoredChunks(<<3>>, "Aa", "a2.txt", <<5, 1, 0>>, <<"y">>)
                       \cup StoredChunks(<<4>>, "", "n.txt", <<12, 1>>, <<"x">>),
            size |-> ExpectedDim],
           [exists |-> TRUE,
            points |-> StoredChunks(<<1, 5>>, "D", "d.txt", <<6, 1>>, <<"x", "y">>)
                       \cup StoredChunks(<<2, 3, 4>>, "E", "e.txt", <<6, 1, 0>>,
                       <<"x", "y", "z">>),
            size |-> ExpectedDim] }
    /\ full_documents = Missing
    /\ credential = TRUE
    /\ pc = [p \in Procs |-> "idle"]
    /\ call = [p \in Procs |-> Idle]
    /\ loc = [p \in Procs |-> NoValue]
    /\ ret = [p \in Procs |-> NoValue]
    /\ trace = [p \in Procs |-> <<>>]
    /\ pre = [p \in Procs |-> NoValue]
    /\ clock = 0
    /\ nops = 0

\* The bounds passed: absent, date-only, full, and one that is no date.
RangeBounds == {<<>>, <<5, 1>>, <<6, 1>>, <<6, 1, 12>>, <<7, 1, 0>>, <<13, 1>>}

StartByDateRange(p) ==
    \E dateFrom \in RangeBounds, dateTo \in RangeBounds :
        ByDateRange_Start(p, dateFrom, dateTo)

NextList ==
    \/ GetAll_Start(1)
    \/ StartByDateRange(1)
    \/ GetAllStep(1)
    \/ Return(1)

SpecList == InitList /\ [][NextList]_vars

-----------------------------------------------------------------------------
(* stringToNumericId on its own: the function is applied to strings over a
   few UTF-16 code units, among them the largest, long enough for the hash
   to leave 32 bits. *)

CodeUnits == {48, 122, 65535}

Strings == UNION {[1..n -> CodeUnits] : n \in 0..MaxLen}

NumericId_Start(p, str) ==
    Begin(p, [op |-> "stringToNumericId", str |-> str], "ni_run", [threw |-> <<>>])

\* The loop over the characters and return Math.abs(hash): no await, one step.
NumericId_Run(p) ==
    /\ pc[p] = "ni_run"
    /\ Finish(p, NumericIdOfCodes(call[p].str), loc[p], <<>>)
    /\ UNCHANGED <<documents, full_documents, clock>>

StartNumericId(p) == \E str \in Strings : NumericId_Start(p, str)

NextHash ==
    \/ StartNumericId(1)
    \/ NumericId_Run(1)
    \/ Return(1)

SpecHash == Init /\ [][NextHash]_vars

-----------------------------------------------------------------------------
(* The ingest route: ingestions through POST /api/summarize, one at a time,
   into a backend that is new, holds the two-chunk document "Aa" of an
   earlier ingestion, or has an empty "documents" collection left over from
   an earlier embedding model. *)

InitIngest ==
    /\ \E store \in
            { [documents |-> Missing, full_documents |-> Missing],
              [documents |-> [exists |-> TRUE,
                              points |-> StoredChunks(<<1, 2>>, "Aa", "a.txt", <<5, 1, 0>>,
                                         <<"x", "y">>),
                              size |-> ExpectedDim],
               full_documents |-> [exists |-> TRUE,
                                   points |-> {StoredRecord("Aa", "a.txt", "xy", 2, <<5, 1, 0>>)},
                                   size |-> FullDocDim]],
              [documents |-> [exists |-> TRUE, points |-> {}, size |-> LegacyDim],
               full_documents |-> Missing] } :
         /\ documents = store.documents
         /\ full_documents = store.full_documents
    /\ credential \in BOOLEAN
    /\ pc = [p \in Procs |-> "idle"]
    /\ call = [p \in Procs |-> Idle]
    /\ loc = [p \in Procs |-> NoValue]
    /\ ret = [p \in Procs |-> NoValue]
    /\ trace = [p \in Procs |-> <<>>]
    /\ pre = [p \in Procs |-> NoValue]
    /\ clock = 0
    /\ nops = 0

\* The requests posted: a text of one chunk and a text of two.
StartIngest(r) ==
    \E c \in {[filename |-> "b.pdf", textContent |-> "y", type |-> "pdf"],
              [filename |-> "c.txt", textContent |-> "xy", type |-> "text"]} :
        Route_Start(r, c.filename, c.textContent, c.type)

NextIngest ==
    \/ StartIngest(2)
    \/ RouteStep(2, 1)
    \/ StoreFullStep(1)
    \/ StoreChunksStep(1)
    \/ Return(2)

SpecIngest == InitIngest /\ [][NextIngest]_vars

-----------------------------------------------------------------------------
(* The scroll loops: calls of listAllFullDocuments, getAllDocuments and
   deleteFullDocument, one at a time, against collections that are missing,
   empty, within the cap, or above it.  An awaited backend call settles, and
   the function then runs on to its next await. *)

InitScroll ==
    /\ documents \in
         { Missing,
           [exists |-> TRUE, points |-> {}, size |-> ExpectedDim],
           [exists |-> TRUE,
            points |-> StoredChunks(<<1, 2, 3>>, "Aa", "a.txt", <<6, 1, 12>>,
                       <<"x", "y", "z">>),
            size |-> ExpectedDim],
           [exists |-> TRUE,
            points |-> StoredChunks(<<1, 5>>, "Aa", "a.txt", <<6, 1>>, <<"x", "y">>)
                       \cup StoredChunks(<<2, 3, 4>>, "C", "c.txt", <<6, 1, 0>>,
                       <<"x", "y", "z">>),
            size |-> ExpectedDim] }
    /\ full_documents \in
         { Missing,
           [exists |-> TRUE, points |-> {}, size |-> FullDocDim],
           [exists |-> TRUE,
            points |-> {StoredRecord("Aa", "a.txt", "x", 1, <<5, 1, 0>>),
                       StoredRecord("C", "c.txt", "z", 1, <<7, 1, 0>>),
                       StoredRecord("D", "d.txt", "y", 1, <<6, 1>>),
                       StoredRecord("E", "e.txt", "x", 1, <<6, 1, 0>>),
                       StoredRecord("F", "f.txt", "z", 1, <<12, 1, 5>>)},
            size |-> FullDocDim] }
    /\ credential = TRUE
    /\ pc = [p \in Procs |-> "idle"]
    /\ call = [p \in Procs |-> Idle]
    /\ loc = [p \in Procs |-> NoValue]
    /\ ret = [p \in Procs |-> NoValue]
    /\ trace = [p \in Procs |-> <<>>]
    /\ pre = [p \in Procs |-> NoValue]
    /\ clock = 0
    /\ nops = 0

\* The steps of the running function.
ScrollSteps ==
    \/ ListFull_GetCollection(1)
    \/ ListFull_Scroll(1)
    \/ GetAllStep(1)
    \/ DeleteStep(1)

NextScroll ==
    \/ ListFull_Start(1)
    \/ GetAll_Start(1)
    \/ StartDelete(1)
    \/ ScrollSteps
    \/ Return(1)

SpecScroll == InitScroll /\ [][NextScroll]_vars /\ WF_vars(ScrollSteps)

-----------------------------------------------------------------------------
(* Concurrent lazy creation: two storeFullDocument calls, one by each of two
   requests, for documents with different numeric ids, against a
   full_documents collection that is missing or empty.  The awaits of the
   two calls interleave in every order. *)

InitLazy ==
    /\ documents = Missing
    /\ full_documents \in
         {Missing, [exists |-> TRUE, points |-> {}, size |-> FullDocDim]}
    /\ credential = TRUE
    /\ pc = [p \in Procs |-> "idle"]
    /\ call = [p \in Procs |-> Idle]
    /\ loc = [p \in Procs |-> NoValue]
    /\ ret = [p \in Procs |-> NoValue]
    /\ trace = [p \in Procs |-> <<>>]
    /\ pre = [p \in Procs |-> NoValue]
    /\ clock = 0
    /\ nops = 0

\* The second request stores document "C".
StartStoreFullOfC(p) ==
    \E uploadDate \in {<<>>, <<7, 1, 0>>} :
        StoreFull_Start(p, "C", "c.txt", "z", "text", 1, 1, uploadDate)

NextLazy ==
    \/ StartStoreFull(1)
    \/ StartStoreFullOfC(2)
    \/ StoreFullStep(1)
    \/ StoreFullStep(2)

SpecLazy == InitLazy /\ [][NextLazy]_vars

-----------------------------------------------------------------------------
(* Concurrent ingestion: two storeChunksWithEmbeddings calls, one by each of
   two requests, against a "documents" collection that is missing, empty, or
   left over from an earlier embedding model.  The awaits of the two calls
   interleave in every order. *)

NextConcurrent ==
    \/ StartStoreChunks(1)
    \/ StartStoreChunks(2)
    \/ StoreChunksStep(1)
    \/ StoreChunksStep(2)

SpecConcurrent == Init /\ [][NextConcurrent]_vars

-----------------------------------------------------------------------------
(* Delete and ingest: one deleteFullDocument call by one request and one of
   the two writes of an ingestion, storeFullDocument or
   storeChunksWithEmbeddings, by another, against a backend that holds
   ingested documents.  The awaits of the two calls interleave in every
   order. *)

InitRace ==
    /\ \E store \in
            { [documents |-> [exists |-> TRUE,
                              points |-> StoredChunks(<<1, 2>>, "Aa", "a.txt", <<5, 1, 0>>,
                                         <<"x", "y">>)
                                         \cup StoredChunks(<<3>>, "C", "c.txt", <<7, 1, 0>>, <<"z">>),
                              size |-> ExpectedDim],
               full_documents |-> [exists |-> TRUE,
                                   points |-> {StoredRecord("Aa", "a.txt", "xy", 2, <<5, 1, 0>>),
                                              StoredRecord("C", "c.txt", "z", 1, <<7, 1, 0>>)},
                                   size |-> FullDocDim]],
              [documents |-> [exists |-> TRUE, points |-> {}, size |-> ExpectedDim],
               full_documents |-> Missing],
              [documents |-> [exists |-> TRUE, points |-> {}, size |-> LegacyDim],
               full_documents |-> Missing] } :
         /\ documents = store.documents
         /\ full_documents = store.full_documents
    /\ credential = TRUE
    /\ pc = [p \in Procs |-> "idle"]
    /\ call = [p \in Procs |-> Idle]
    /\ loc = [p \in Procs |-> NoValue]
    /\ ret = [p \in Procs |-> NoValue]
    /\ trace = [p \in Procs |-> <<>>]
    /\ pre = [p \in Procs |-> NoValue]
    /\ clock = 0
    /\ nops = 0

NextRace ==
    \/ StartDelete(1)
    \/ DeleteStep(1)
    \/ StartStoreFull(2)
    \/ StoreFullStep(2)
    \/ StartStoreChunks(2)
    \/ StoreChunksStep(2)

SpecRace == InitRace /\ [][NextRace]_vars

-----------------------------------------------------------------------------
(* Properties of ingestion *)

Returned(p, op) == pc[p] = "done" /\ call[p].op = op

ChunksOf(points, documentId) == {pt \in points : pt.payload.document_id = documentId}

RecordsOf(points, documentId) == {pt \in points : pt.payload.documentId = documentId}

\* C1: when storeChunksWithEmbeddings returns success for a document D given
\* as N chunks, D having had no chunk in the store before, the store holds
\* exactly N points with document_id = D, their chunk_index values are
\* 0..N-1, each once, and all carry the same uploadDate (the supplied one if
\* one was supplied).
C1_ExactlyNChunkPoints ==
    \A p \in Procs :
        ( /\ Returned(p, "storeChunksWithEmbeddings")
          /\ ret[p].success
          /\ ChunksOf(pre[p].documents.points, call[p].documentId) = {} )
        => LET mine == ChunksOf(documents.points, call[p].documentId)
               n == Len(call[p].chunks)
           IN  /\ Cardinality(mine) = n
               /\ {pt.payload.chunk_index : pt \in mine} = 0..(n - 1)
               /\ \A a, b \in mine : a.payload.uploadDate = b.payload.uploadDate
               /\ call[p].uploadDate # <<>> =>
                     \A a \in mine : a.payload.uploadDate = call[p].uploadDate

\* C3: once the collection check of storeChunksWithEmbeddings has completed
\* without failure, "documents" exists with vector size 768; and if it
\* existed with another size when the call began, it has been deleted and
\* created again and holds no point right after the check.
C3_CollectionHasExpectedSize ==
    \A p \in Procs :
        (call[p].op = "storeChunksWithEmbeddings" /\ pc[p] # "done" /\ loc[p].checked)
        => /\ documents.exists
           /\ documents.size = 768
           /\ ( /\ pc[p] = "sc_embed"
                /\ pre[p].documents.exists
                /\ pre[p].documents.size # 768 )
              => /\ loc[p].recreated
                 /\ trace[p] = <<"getCollection", "deleteCollection", "createCollection">>
                 /\ documents.points = {}

C3_Witness ==
    \E p \in Procs :
        /\ call[p].op = "storeChunksWithEmbeddings"
        /\ pc[p] = "sc_embed"
        /\ loc[p].checked
        /\ pre[p].documents.exists
        /\ pre[p].documents.size # 768
        /\ pre[p].documents.points # {}

\* C4: when storeFullDocument returns success for documentId D,
\* full_documents holds exactly one record with documentId D, and it has the
\* fields of this call, also when a record for D with other fields was
\* stored by an earlier call.
C4_PutTwiceLeavesOneRecord ==
    \A p \in Procs :
        (Returned(p, "storeFullDocument") /\ ret[p].success)
        => LET c == call[p]
               mine == RecordsOf(full_documents.points, c.documentId)
           IN  /\ Cardinality(mine) = 1
               /\ \A r \in mine :
                    /\ r.payload.filename = c.filename
                    /\ r.payload.fullContent = c.fullContent
                    /\ r.payload.fileType = c.fileType
                    /\ r.payload.fileSize = c.fileSize
                    /\ r.payload.chunkCount = c.chunkCount
                    /\ c.uploadDate # <<>> => r.payload.uploadDate = c.uploadDate

C4_Witness ==
    \E p \in Procs :
        /\ Returned(p, "storeFullDocument")
        /\ ret[p].success
        /\ \E old \in RecordsOf(pre[p].full_documents.points, call[p].documentId) :
              old.payload.fullContent # call[p].fullContent

\* C8: when an embedding call of a batch has failed, storeChunksWithEmbeddings
\* has issued no upsert, has stored no point, and returns success: false with
\* a message.
C8_EmbeddingFailureStoresNothing ==
    \A p \in Procs :
        ( /\ Returned(p, "storeChunksWithEmbeddings")
          /\ "generateEmbedding" \in ThrownSteps(loc[p]) )
        => /\ \A i \in 1..Len(trace[p]) : trace[p][i] # "upsert"
           /\ documents.points \subseteq pre[p].documents.points
           /\ ret[p] = [message |-> loc[p].threw[Len(loc[p].threw)].error,
                        success |-> FALSE]

\* One embedding of a two-chunk batch had succeeded when the other failed.
C8_Witness ==
    \E p \in Procs :
        /\ Returned(p, "storeChunksWithEmbeddings")
        /\ "generateEmbedding" \in ThrownSteps(loc[p])
        /\ credential
        /\ \E i \in 1..Len(call[p].chunks) : loc[p].embeddingsData[i] # NoValue

\* The steps whose error reaches the outer catch of storeChunksWithEmbeddings.
StoreChunksFatalSteps == {"createCollection", "generateEmbedding", "upsert"}

\* C9 as stated: whenever any step of storeChunksWithEmbeddings has failed,
\* the call returns success: false.
C9_AnyFailedStepFailsTheCall ==
    \A p \in Procs :
        (Returned(p, "storeChunksWithEmbeddings") /\ loc[p].threw # <<>>)
        => ~ret[p].success

\* C9 amended: storeChunksWithEmbeddings always returns a result; when
\* createCollection, an embedding call or the upsert has failed the result
\* is success: false with the text of that error; and success: true comes
\* with count = number of chunks, after an upsert that did not fail.
C9_ReturnsResultNeverRaises ==
    \A p \in Procs :
        Returned(p, "storeChunksWithEmbeddings")
        => /\ "success" \in DOMAIN ret[p]
           /\ \A i \in 1..Len(loc[p].threw) :
                loc[p].threw[i].step \in StoreChunksFatalSteps
                => ret[p] = [message |-> loc[p].threw[i].error, success |-> FALSE]
           /\ ret[p].success
              => /\ ret[p].count = Len(call[p].chunks)
                 /\ trace[p][Len(trace[p])] = "upsert"
                 /\ ThrownSteps(loc[p]) \cap StoreChunksFatalSteps = {}

C9_Witness ==
    \E p \in Procs :
        /\ Returned(p, "storeChunksWithEmbeddings")
        /\ "upsert" \in ThrownSteps(loc[p])
        /\ ret[p] = [message |-> ErrBackend, success |-> FALSE]

\* C10: when storeChunksWithEmbeddings or searchRelevantChunks ends on the
\* missing-credential error, it has issued no backend call before.
C10_ConfigErrorBeforeAnyBackendCall ==
    \A p \in Procs :
        ( /\ pc[p] = "done"
          /\ call[p].op \in {"storeChunksWithEmbeddings", "searchRelevantChunks"}
          /\ \E i \in 1..Len(loc[p].threw) : loc[p].threw[i].error = ErrConfig )
        => trace[p] = <<>>

-----------------------------------------------------------------------------
(* Properties of search *)

\* u lies within the bounds given, each bound taken as the ISO string of its
\* instant and compared as a string; a bound not given does not constrain.
InRange(u, dateFrom, dateTo) ==
    /\ dateFrom # <<>> => StrLeq(ToISOString(dateFrom), u)
    /\ dateTo # <<>> => StrLeq(u, ToISOString(dateTo))

\* `item` of a returned sequence shows the stored point pt.
Shows(item, pt, includeMetadata) ==
    IF includeMetadata
    THEN item.content = pt.payload.content /\ item.filename = pt.payload.filename
    ELSE item = pt.payload.content

Contents(value, includeMetadata) ==
    {IF includeMetadata THEN value[i].content ELSE value[i] : i \in 1..Len(value)}

\* C5: every item searchRelevantChunks returns for options with dateFrom
\* and/or dateTo shows a stored chunk whose uploadDate u has
\* dateFrom <= u and u <= dateTo as ISO strings; and with the chunks of
\* 2024-01-01, 2024-06-01 and 2024-12-01, dateFrom = 2024-05-01 and
\* dateTo = 2024-12-31, a search that did not fail returns chunks of June and
\* December only, and both when topK allows two.
C5_TemporalFilter ==
    \A p \in Procs :
        ( /\ Returned(p, "searchRelevantChunks")
          /\ call[p].hasOptions
          /\ call[p].options.dateFrom # <<>> \/ call[p].options.dateTo # <<>> )
        => LET o == call[p].options
               meta == call[p].includeMetadata
           IN  /\ \A i \in 1..Len(ret[p]) :
                    \E pt \in documents.points :
                        /\ Shows(ret[p][i], pt, meta)
                        /\ InRange(pt.payload.uploadDate, o.dateFrom, o.dateTo)
               /\ ( /\ documents.points = ChunksByMonth
                    /\ o = [dateFrom |-> <<5, 1>>,
                            dateTo |-> <<12, 31>>,
                            documentId |-> "",
                            filename |-> ""]
                    /\ loc[p].threw = <<>> )
                  => /\ Contents(ret[p], meta) \subseteq {"jun", "dec"}
                     /\ call[p].topK >= 2 => Contents(ret[p], meta) = {"jun", "dec"}

\* The search of the example has returned the chunks of June and December.
C5_Witness ==
    \E p \in Procs :
        /\ Returned(p, "searchRelevantChunks")
        /\ documents.points = ChunksByMonth
        /\ call[p].hasOptions
        /\ call[p].options.dateFrom = <<5, 1>>
        /\ call[p].options.dateTo = <<12, 31>>
        /\ Len(ret[p]) = 2

\* C6: the searchParams searchRelevantChunks passes to search carry a filter
\* exactly when options supplies a criterion, and then filter.must holds one
\* condition for each criterion supplied and no other: document_id = the
\* documentId, filename = the filename, and one uploadDate range with gte for
\* dateFrom and lte for dateTo; every point search returns meets each of them.
C6_FilterIsAndOfSuppliedCriteria ==
    \A p \in Procs :
        (call[p].op = "searchRelevantChunks" /\ loc[p].searchParams # NoValue)
        => LET o == call[p].options
               params == loc[p].searchParams
               wantDoc == call[p].hasOptions /\ o.documentId # ""
               wantFile == call[p].hasOptions /\ o.filename # ""
               wantFrom == call[p].hasOptions /\ o.dateFrom # <<>>
               wantTo == call[p].hasOptions /\ o.dateTo # <<>>
               count == (IF wantDoc THEN 1 ELSE 0) + (IF wantFile THEN 1 ELSE 0)
                        + (IF wantFrom \/ wantTo THEN 1 ELSE 0)
           IN  IF count = 0
               THEN "filter" \notin DOMAIN params
               ELSE /\ "filter" \in DOMAIN params
                    /\ DOMAIN params.filter = {"must"}
                    /\ LET must == params.filter.must
                           conds == {must[i] : i \in 1..Len(must)}
                       IN  /\ Len(must) = count
                           /\ wantDoc =>
                                [key |-> "document_id", match |-> [value |-> o.documentId]]
                                    \in conds
                           /\ wantFile =>
                                [key |-> "filename", match |-> [value |-> o.filename]]
                                    \in conds
                           /\ (wantFrom \/ wantTo) =>
                                \E c \in conds :
                                    /\ c.key = "uploadDate"
                                    /\ DOMAIN c = {"key", "range"}
                                    /\ DOMAIN c.range = {k \in {"gte", "lte"} :
                                                            \/ k = "gte" /\ wantFrom
                                                            \/ k = "lte" /\ wantTo}
                                    /\ wantFrom => c.range.gte = ToISOString(o.dateFrom)
                                    /\ wantTo => c.range.lte = ToISOString(o.dateTo)
                    /\ \A i \in 1..Len(loc[p].results) :
                         LET payload == loc[p].results[i].payload
                         IN  /\ wantDoc => payload.document_id = o.documentId
                             /\ wantFile => payload.filename = o.filename
                             /\ InRange(payload.uploadDate,
                                        IF wantFrom THEN o.dateFrom ELSE <<>>,
                                        IF wantTo THEN o.dateTo ELSE <<>>)

\* A search with all the criteria has returned a chunk.
C6_Witness ==
    \E p \in Procs :
        /\ Returned(p, "searchRelevantChunks")
        /\ call[p].hasOptions
        /\ call[p].options.documentId # ""
        /\ call[p].options.filename # ""
        /\ call[p].options.dateFrom # <<>>
        /\ call[p].options.dateTo # <<>>
        /\ Len(trace[p]) = 3
        /\ ret[p] # <<>>

\* C7: when "documents" does not exist, searchRelevantChunks returns the
\* empty sequence, in both modes, and has called getCollection only: neither
\* the embedding provider nor search.
C7_MissingCollectionReturnsEmpty ==
    \A p \in Procs :
        (Returned(p, "searchRelevantChunks") /\ ~pre[p].documents.exists)
        => /\ ret[p] = <<>>
           /\ trace[p] = <<"getCollection">>

C7_Witness ==
    \E p \in Procs :
        /\ Returned(p, "searchRelevantChunks")
        /\ ~pre[p].documents.exists
        /\ credential
        /\ call[p].includeMetadata
        /\ ret[p] = <<>>

-----------------------------------------------------------------------------
(* Properties of deletion *)

\* C2: when deleteFullDocument(D) returns success, both collections having
\* been within the scan caps when it was called, no chunk point with
\* document_id = D and no full-document record with documentId = D remains.
C2_DeletionComplete ==
    \A p \in Procs :
        ( /\ Returned(p, "deleteFullDocument")
          /\ ret[p].success
          /\ Cardinality(pre[p].full_documents.points) <= FullDocCap
          /\ Cardinality(pre[p].documents.points) <= ChunkCap )
        => /\ ChunksOf(documents.points, call[p].documentId) = {}
           /\ RecordsOf(full_documents.points, call[p].documentId) = {}

-----------------------------------------------------------------------------
(* Properties of the collection check and of the pure functions *)

NoneIssued(issued, name) == \A k \in 1..Len(issued) : issued[k] # name

\* C11: when deleteCollection or createCollection has thrown during the
\* collection check of storeChunksWithEmbeddings, the call returns
\* success: false, has issued no embedding call and has written no point.
C11_CollectionErrorFailsIngestion ==
    \A p \in Procs :
        ( /\ Returned(p, "storeChunksWithEmbeddings")
          /\ ThrownSteps(loc[p]) \cap {"deleteCollection", "createCollection"} # {} )
        => /\ ~ret[p].success
           /\ NoneIssued(trace[p], "embedContent")
           /\ NoneIssued(trace[p], "upsert")
           /\ documents.points \subseteq pre[p].documents.points

\* h := 31 * h + char on the signed value h, wrapped to a signed 32-bit
\* integer; the product is formed on the two halves h = q * 65536 + r.
Wrapped31(h, char) ==
    LET q == h \div 65536
        r == h % 65536
        low == 31 * r + char
        high == (31 * q + low \div 65536) % 65536
    IN  (IF high >= 32768 THEN high - 65536 ELSE high) * 65536 + (low % 65536)

RECURSIVE RollingHash(_, _)
RollingHash(codes, n) ==
    IF n = 0 THEN 0 ELSE Wrapped31(RollingHash(codes, n - 1), codes[n])

\* C12: for every string, in every state of the backend, stringToNumericId
\* returns the absolute value of the rolling hash h := 31 * h + charCode
\* wrapped to a signed 32-bit integer at each step: a value that depends on
\* the string alone and is never negative.
C12_NumericIdIsAbsOfRollingHash ==
    \A p \in Procs :
        Returned(p, "stringToNumericId")
        => LET h == RollingHash(call[p].str, Len(call[p].str))
           IN  /\ ret[p] = IF h < 0 THEN -h ELSE h
               /\ ret[p] >= 0

\* The hash of a string of the greatest length has left 32 bits and come out
\* negative.
C12_Witness ==
    \E p \in Procs :
        /\ Returned(p, "stringToNumericId")
        /\ Len(call[p].str) = MaxLen
        /\ RollingHash(call[p].str, Len(call[p].str)) < 0

-----------------------------------------------------------------------------
(* Properties of the full-document store *)

\* C13: right after a successful storeFullDocument(D, ...) the lookup of D
\* finds one record, with documentId D and the fields of that call; and
\* getFullDocument(D) returns either null or the payload of a stored record
\* whose documentId is D, the latter whenever such a record is stored and
\* the scroll did not fail.
C13_PutGetRoundTrip ==
    \A p \in Procs :
        /\ (Returned(p, "storeFullDocument") /\ ret[p].success)
           => LET c == call[p]
                  found == FullDocLookup(full_documents.points, c.documentId)
              IN  /\ Len(found) = 1
                  /\ found[1].payload.documentId = c.documentId
                  /\ found[1].payload.filename = c.filename
                  /\ found[1].payload.fullContent = c.fullContent
                  /\ found[1].payload.fileType = c.fileType
                  /\ found[1].payload.fileSize = c.fileSize
                  /\ found[1].payload.chunkCount = c.chunkCount
                  /\ c.uploadDate # <<>> => found[1].payload.uploadDate = c.uploadDate
        /\ Returned(p, "getFullDocument")
           => LET mine == RecordsOf(full_documents.points, call[p].documentId)
              IN  /\ ret[p] # NoValue
                     => /\ ret[p].documentId = call[p].documentId
                        /\ \E r \in mine : r.payload = ret[p]
                  /\ (mine # {} /\ loc[p].threw = <<>>) => ret[p] # NoValue

\* getFullDocument has returned the record of a put that replaced the
\* record the store held for that document before.
C13_Witness ==
    \E p \in Procs :
        /\ Returned(p, "getFullDocument")
        /\ call[p].documentId = "Aa"
        /\ ret[p] # NoValue
        /\ ret[p].fullContent = "xy"

\* C14: when full_documents does not exist listAllFullDocuments returns
\* success with an empty list and total 0; otherwise a successful call
\* returns one summary for each record it scanned, with the fields of that
\* record except fullContent, the newest uploadDate first, total being the
\* number of summaries and at most the cap; every stored record is scanned
\* when the collection is within the cap.
C14_ListAllFullDocuments ==
    \A p \in Procs :
        Returned(p, "listAllFullDocuments")
        => /\ ~pre[p].full_documents.exists
              => ret[p] = [documents |-> <<>>, success |-> TRUE, total |-> 0]
           /\ (ret[p].success /\ pre[p].full_documents.exists /\ loc[p].threw = <<>>)
              => LET docs == ret[p].documents
                     stored == full_documents.points
                     scanned == {loc[p].allPoints[k].id : k \in 1..Len(loc[p].allPoints)}
                 IN  /\ Len(docs) = Cardinality(scanned)
                     /\ ret[p].total = Len(docs)
                     /\ ret[p].total <= FullDocCap
                     /\ scanned \subseteq PointIds(stored)
                     /\ Cardinality(stored) <= FullDocCap => scanned = PointIds(stored)
                     /\ \A r \in stored :
                          r.id \in scanned
                          => Cardinality({i \in 1..Len(docs) :
                                            docs[i].documentId = r.payload.documentId}) = 1
                     /\ \A i \in 1..Len(docs) :
                          /\ "fullContent" \notin DOMAIN docs[i]
                          /\ \E r \in stored :
                               /\ r.id \in scanned
                               /\ \A f \in DOMAIN docs[i] : docs[i][f] = r.payload[f]
                               /\ DOMAIN r.payload \ DOMAIN docs[i]
                                    = {"fullContent", "isFullDocument"}
                     /\ \A i, j \in 1..Len(docs) :
                          i < j => ~StrLeq(ToISOString(docs[i].uploadDate),
                                           ToISOString(docs[j].uploadDate))
                                   \/ ToISOString(docs[i].uploadDate)
                                        = ToISOString(docs[j].uploadDate)

\* A list of a collection above the cap: as many summaries as the cap, of
\* several upload dates.
C14_Witness ==
    \E p \in Procs :
        /\ Returned(p, "listAllFullDocuments")
        /\ ret[p].success
        /\ Cardinality(full_documents.points) > FullDocCap
        /\ ret[p].total = FullDocCap
        /\ ret[p].documents[1].uploadDate # ret[p].documents[2].uploadDate

-----------------------------------------------------------------------------
(* Properties of listing *)

\* C15: a successful getAllDocuments on an existing collection returns one
\* summary for each non-empty document_id among the points it scanned and no
\* other, with chunks_count the number of scanned points of that id and
\* uploadDate the earliest uploadDate among them; the summaries come newest
\* first and total is their number.  Every stored point is scanned when the
\* collection is within the cap, and the one document of three chunks gives
\* one summary with chunks_count 3 and its uploadDate.
C15_GetAllDocuments ==
    \A p \in Procs :
        ( /\ Returned(p, "getAllDocuments")
          /\ ret[p].success
          /\ pre[p].documents.exists
          /\ loc[p].threw = <<>> )
        => LET docs == ret[p].documents
               scanned == {loc[p].allPoints[k] : k \in 1..Len(loc[p].allPoints)}
               ids == {pt.payload.document_id : pt \in scanned} \ {""}
               of(d) == {pt \in scanned : pt.payload.document_id = d}
           IN  /\ PointIds(scanned) \subseteq PointIds(documents.points)
               /\ Cardinality(documents.points) <= ChunkCap
                    => PointIds(scanned) = PointIds(documents.points)
               /\ Len(docs) = Cardinality(ids)
               /\ {docs[i].document_id : i \in 1..Len(docs)} = ids
               /\ ret[p].total = Len(docs)
               /\ \A i \in 1..Len(docs) :
                    LET mine == of(docs[i].document_id)
                    IN  /\ docs[i].chunks_count = Cardinality(mine)
                        /\ \E pt \in mine : pt.payload.uploadDate = docs[i].uploadDate
                        /\ \A pt \in mine :
                             /\ StrLeq(docs[i].uploadDate, pt.payload.uploadDate)
                             /\ StrLeq(ToISOString(docs[i].uploadDate),
                                       ToISOString(pt.payload.uploadDate))
               /\ \A i, j \in 1..Len(docs) :
                    i < j => StrLeq(ToISOString(docs[j].uploadDate),
                                    ToISOString(docs[i].uploadDate))
               /\ documents.points = StoredChunks(<<1, 2, 3>>, "Aa", "a.txt", <<6, 1, 12>>,
                                                  <<"x", "y", "z">>)
                    => /\ Len(docs) = 1
                       /\ docs[1].document_id = "Aa"
                       /\ docs[1].chunks_count = 3
                       /\ docs[1].uploadDate = <<6, 1, 12>>

\* A document whose second scanned point carries the earlier uploadDate.
C15_Witness ==
    \E p \in Procs :
        /\ Returned(p, "getAllDocuments")
        /\ ret[p].success
        /\ \E i \in 1..Len(ret[p].documents) :
             /\ ret[p].documents[i].chunks_count = 2
             /\ ret[p].documents[i].uploadDate = <<5, 1, 0>>
        /\ \E pt \in documents.points : pt.payload.document_id = ""

\* The instant of uploadDate lies within the bounds given; a bound that is
\* no date is met by no document, a bound not given by all.
WithinBounds(uploadDate, dateFrom, dateTo) ==
    /\ dateFrom # <<>>
         => /\ ValidDateString(dateFrom)
            /\ StrLeq(ToISOString(dateFrom), ToISOString(uploadDate))
    /\ dateTo # <<>>
         => /\ ValidDateString(dateTo)
            /\ StrLeq(ToISOString(uploadDate), ToISOString(dateTo))

\* C16: getDocumentsByDateRange(from, to) returns the failure result of
\* getAllDocuments as it is; otherwise it returns success with exactly the
\* documents of getAllDocuments whose uploadDate d has from <= d when from is
\* given and d <= to when to is given, in the order they had, and total
\* their number; with neither bound that is the whole list.
C16_DocumentsByDateRange ==
    \A p \in Procs :
        Returned(p, "getDocumentsByDateRange")
        => LET allDocs == loc[p].allDocs
               c == call[p]
               kept == {i \in 1..Len(allDocs.documents) :
                          WithinBounds(allDocs.documents[i].uploadDate, c.dateFrom, c.dateTo)}
           IN  /\ ~allDocs.success => ret[p] = allDocs
               /\ (allDocs.success /\ loc[p].threw = <<>>)
                    => allDocs = AllDocuments(loc[p].allPoints)
               /\ allDocs.success
                    => /\ ret[p].success
                       /\ DOMAIN ret[p] = {"documents", "success", "total"}
                       /\ ret[p].total = Len(ret[p].documents)
                       /\ Len(ret[p].documents) = Cardinality(kept)
                       /\ \A i \in kept :
                            ret[p].documents[Cardinality({j \in kept : j <= i})]
                                = allDocs.documents[i]
                       /\ (c.dateFrom = <<>> /\ c.dateTo = <<>>)
                            => ret[p].documents = allDocs.documents

\* A range with both bounds has kept some documents and dropped others.
C16_Witness ==
    \E p \in Procs :
        /\ Returned(p, "getDocumentsByDateRange")
        /\ call[p].dateFrom # <<>>
        /\ call[p].dateTo # <<>>
        /\ Len(ret[p].documents) > 0
        /\ Len(ret[p].documents) < Len(loc[p].allDocs.documents)

-----------------------------------------------------------------------------
(* Properties of error reporting *)

\* A step of the call failed with something other than a missing collection.
OtherFailure(p) ==
    \E k \in 1..Len(loc[p].threw) : loc[p].threw[k].error # ErrNotFound

\* C17: a call of searchRelevantChunks, getFullDocument or
\* listAllFullDocuments in which the backend or the embedding provider failed
\* with anything but a missing collection does not return the empty or
\* not-found result: the empty list of searchRelevantChunks, the null of
\* getFullDocument, a success of listAllFullDocuments.
C17_FailuresAreSurfaced ==
    \A p \in Procs :
        (pc[p] = "done" /\ OtherFailure(p))
        => CASE call[p].op = "searchRelevantChunks" -> ret[p] # <<>>
             [] call[p].op = "getFullDocument" -> ret[p] # NoValue
             [] call[p].op = "listAllFullDocuments" ->
                    /\ ~ret[p].success
                    /\ ret[p].error = loc[p].threw[Len(loc[p].threw)].error
             [] OTHER -> TRUE

-----------------------------------------------------------------------------
(* Properties of the embedding batch *)

\* The number of embedContent requests in issued.
EmbedRequests(issued) == Cardinality({k \in 1..Len(issued) : issued[k] = "embedContent"})

\* C20: the embedding calls of one batch are all in flight together, and
\* the point built for input chunk i has chunk_index = i, content = chunks[i]
\* and vector = the embedding of chunks[i], in whatever order the calls
\* completed.
C20_PointsFollowInputOrder ==
    \A p \in Procs :
        /\ pc[p] = "sc_embedding"
             => /\ EmbedRequests(trace[p]) = Len(call[p].chunks)
                /\ loc[p].pending \cup Range(loc[p].completed) = 1..Len(call[p].chunks)
        /\ (Returned(p, "storeChunksWithEmbeddings") /\ loc[p].points # <<>>)
             => /\ Len(loc[p].points) = Len(call[p].chunks)
                /\ \A i \in 1..Len(call[p].chunks) :
                     /\ loc[p].points[i].payload.chunk_index = i - 1
                     /\ loc[p].points[i].payload.content = call[p].chunks[i]
                     /\ loc[p].points[i].vector = Embedding(call[p].chunks[i])

\* The points of a batch whose second call completed before its first have
\* been stored.
C20_Witness ==
    \E p \in Procs :
        /\ Returned(p, "storeChunksWithEmbeddings")
        /\ ret[p].success
        /\ loc[p].completed = <<2, 1>>
        /\ call[p].chunks[1] # call[p].chunks[2]

-----------------------------------------------------------------------------
(* Properties of the ingest route *)

\* The chunk points of document d.
ChunkPointsOf(d) == {pt \in documents.points : pt.payload.document_id = d}

\* The full-document records of document d.
FullRecordsOf(d) == {pt \in full_documents.points : pt.payload.documentId = d}

\* The handler r has answered.
Responded(r) == pc[r] = "done" /\ call[r].op = "POST"

\* C18: the ingest route attempts both writes, storeFullDocument and then
\* storeChunksWithEmbeddings, whatever the first reported; its response has
\* success exactly when both reported success; and what a successful write
\* stored is still stored when the handler answers.
C18_WritesAreIndependent ==
    \A r \in Procs :
        Responded(r)
        => LET full == loc[r].documentStoreResult
               emb == loc[r].embeddingResult
           IN  /\ trace[r] = <<"storeFullDocument", "storeChunksWithEmbeddings">>
               /\ ret[r].documentStoreStatus = full
               /\ ret[r].embeddingStatus = emb
               /\ ret[r].success <=> (full.success /\ emb.success)
               /\ full.success => FullRecordsOf(loc[r].documentId) # {}
               /\ emb.success => ChunkPointsOf(loc[r].documentId) # {}

\* One write failed and the other succeeded, and its data are there.
C18_Witness ==
    \E r \in Procs :
        /\ Responded(r)
        /\ ~ret[r].success
        /\ ~loc[r].documentStoreResult.success
        /\ loc[r].embeddingResult.success
        /\ ChunkPointsOf(loc[r].documentId) # {}
        /\ FullRecordsOf(loc[r].documentId) = {}

\* The chunk points of d agree on uploadDate and filename, with one another
\* and with every full-document record of d.
SameDateAndName(d) ==
    /\ \A a, b \in ChunkPointsOf(d) :
         /\ a.payload.uploadDate = b.payload.uploadDate
         /\ a.payload.filename = b.payload.filename
    /\ \A a \in ChunkPointsOf(d), rec \in FullRecordsOf(d) :
         /\ a.payload.uploadDate = rec.payload.uploadDate
         /\ a.payload.filename = rec.payload.filename

\* d has one full-document record, whose chunkCount is the number of chunk
\* points of d.
OneRecordCountingChunks(d) ==
    /\ Cardinality(FullRecordsOf(d)) = 1
    /\ \A rec \in FullRecordsOf(d) :
         rec.payload.chunkCount = Cardinality(ChunkPointsOf(d))

\* The documents whose two writes succeeded before the handler r was called.
IngestedBefore(r) ==
    {pt.payload.documentId : pt \in pre[r].full_documents.points}

\* C19: when an ingestion through the ingest route has completed, no
\* deletion having been made, the chunk points of every document_id carry
\* one uploadDate and one filename, those of the document's full-document
\* record; and every document whose two writes reported success, in this
\* ingestion or in an earlier one, has exactly one record, whose chunkCount
\* is the number of its chunk points.
C19_CrossStoreConsistency ==
    \A r \in Procs :
        Responded(r)
        => /\ \A d \in StoredDocumentIds : SameDateAndName(d)
           /\ ret[r].success => OneRecordCountingChunks(loc[r].documentId)
           /\ \A d \in IngestedBefore(r) : OneRecordCountingChunks(d)

\* C21 as stated: within one ingestion the full-document record is
\* persisted only when the chunk points have been upserted, that is when
\* storeChunksWithEmbeddings has returned to the handler.
C21_ChunksBeforeRecord ==
    \A r \in Procs :
        (call[r].op = "POST" /\ FullRecordsOf(loc[r].documentId) # {})
        => loc[r].embeddingResult # NoValue

\* C21: within one ingestion storeChunksWithEmbeddings is called, and the
\* chunk points are upserted, only when storeFullDocument has returned to
\* the handler; the record it reported stored is then in the full-document
\* store.
C21_RecordBeforeChunks ==
    \A r \in Procs :
        call[r].op = "POST"
        => /\ \A p \in Procs :
                call[p].op = "storeChunksWithEmbeddings"
                => /\ trace[r] = <<"storeFullDocument">>
                   /\ loc[r].documentStoreResult # NoValue
           /\ ChunkPointsOf(loc[r].documentId) # {}
                => /\ loc[r].documentStoreResult # NoValue
                   /\ loc[r].documentStoreResult.success
                        => FullRecordsOf(loc[r].documentId) # {}

\* The chunk points have just been upserted, the record being stored already.
C21_Witness ==
    \E r, p \in Procs :
        /\ pc[r] = "rt_storeChunks"
        /\ Returned(p, "storeChunksWithEmbeddings")
        /\ ret[p].success
        /\ loc[r].documentStoreResult.success
        /\ ChunkPointsOf(loc[r].documentId) # {}
        /\ FullRecordsOf(loc[r].documentId) # {}

-----------------------------------------------------------------------------
(* Properties of the numeric point id *)

\* The records stored under the numeric id of documentId for another document.
RecordsOfOthersAt(points, documentId) ==
    {pt \in points : /\ pt.id = stringToNumericId(documentId)
                     /\ pt.payload.documentId # documentId}

\* C23: when storeFullDocument(D2) succeeds while the store holds, under
\* the numeric id of D2, the record of another document D1, full_documents
\* then holds one point with that id, carrying the payload of D2, and no
\* record of D1; and getFullDocument(D1) on a store that holds the record of
\* another document under the numeric id of D1 returns not-found.
C23_HashCollisionOverwrites ==
    \A p \in Procs :
        /\ ( /\ Returned(p, "storeFullDocument")
             /\ ret[p].success
             /\ RecordsOfOthersAt(pre[p].full_documents.points, call[p].documentId) # {} )
           => LET id == stringToNumericId(call[p].documentId)
                  held == {pt \in full_documents.points : pt.id = id}
              IN  /\ held = {loc[p].point}
                  /\ loc[p].point.payload.documentId = call[p].documentId
                  /\ \A old \in RecordsOfOthersAt(pre[p].full_documents.points,
                                                 call[p].documentId) :
                       RecordsOf(full_documents.points, old.payload.documentId) = {}
        /\ ( /\ Returned(p, "getFullDocument")
             /\ RecordsOfOthersAt(full_documents.points, call[p].documentId) # {} )
           => ret[p] = NoValue

\* getFullDocument("Aa") has answered not-found, without an error, on a
\* store where the record of "BB" has taken the place of the record of "Aa".
C23_Witness ==
    \E p \in Procs :
        /\ Returned(p, "getFullDocument")
        /\ call[p].documentId = "Aa"
        /\ loc[p].threw = <<>>
        /\ ret[p] = NoValue
        /\ \E pt \in full_documents.points :
             /\ pt.id = stringToNumericId("Aa")
             /\ pt.payload.documentId = "BB"

-----------------------------------------------------------------------------
(* Properties of the chunk phase of deletion *)

RECURSIVE Concat(_)
\* The batches one after the other.
Concat(batches) ==
    IF batches = <<>> THEN <<>> ELSE Head(batches) \o Concat(Tail(batches))

\* The ids of the scanned points of document documentId, in scan order.
ScannedIdsOf(chunkPoints, documentId) ==
    LET mine == SelectSeq(chunkPoints, LAMBDA pt : pt.payload.document_id = documentId)
    IN  [k \in 1..Len(mine) |-> mine[k].id]

\* C24: the batches deleteFullDocument hands to delete in the chunk phase
\* hold at most BatchSize ids each and none is empty; one after the other
\* they are the ids of the scanned points with the target document_id in
\* scan order, all of them once the phase has completed, so that each such
\* id is in exactly one batch and the id of no other point is in any.
C24_BatchesCoverMatchingIds ==
    \A p \in Procs :
        (call[p].op = "deleteFullDocument" /\ loc[p].batches # <<>>)
        => LET batches == loc[p].batches
               all == Concat(batches)
               ids == ScannedIdsOf(loc[p].chunkPoints, call[p].documentId)
           IN  /\ \A b \in 1..Len(batches) :
                    /\ Len(batches[b]) \in 1..BatchSize
                    /\ b < Len(batches) => Len(batches[b]) = BatchSize
               /\ Len(all) <= Len(ids)
               /\ all = SubSeq(ids, 1, Len(all))
               /\ \A j, k \in 1..Len(all) : all[j] = all[k] => j = k
               /\ \A k \in 1..Len(loc[p].chunkPoints) :
                    loc[p].chunkPoints[k].payload.document_id # call[p].documentId
                    => loc[p].chunkPoints[k].id \notin Range(all)
               /\ (pc[p] = "done" /\ ret[p].success) => all = ids

\* A deletion has completed in two batches, beside a point of another document.
C24_Witness ==
    \E p \in Procs :
        /\ Returned(p, "deleteFullDocument")
        /\ ret[p].success
        /\ Len(loc[p].batches) = 2
        /\ Len(loc[p].batches[2]) < BatchSize

-----------------------------------------------------------------------------
(* Properties of the scroll loops *)

\* The loop that collects into `collected` under `cap` goes on: it has not
\* begun, or the last page was not empty and came with a next offset and
\* the cap is not reached.
LoopGoesOn(locals, collected, cap) ==
    \/ collected = <<>> /\ locals.offset = Null /\ locals.hasMore
    \/ /\ locals.hasMore
       /\ locals.offset # Null
       /\ Len(collected) \in 1..(cap - 1)

\* The points a running function has collected are within the caps, and a
\* loop is about to scroll again only when it goes on.
ScrollLoopsWithinCaps ==
    \A p \in Procs :
        /\ call[p].op = "listAllFullDocuments"
             => /\ Len(loc[p].allPoints) <= FullDocCap
                /\ pc[p] = "lf_scroll" => LoopGoesOn(loc[p], loc[p].allPoints, FullDocCap)
        /\ call[p].op \in {"getAllDocuments", "getDocumentsByDateRange"}
             => /\ Len(loc[p].allPoints) <= ChunkCap
                /\ pc[p] = "ga_scroll" => LoopGoesOn(loc[p], loc[p].allPoints, ChunkCap)
        /\ call[p].op = "deleteFullDocument"
             => /\ Len(loc[p].fullDocPoints) <= FullDocCap
                /\ Len(loc[p].chunkPoints) <= ChunkCap
                /\ pc[p] = "df_scrollFull"
                     => LoopGoesOn(loc[p], loc[p].fullDocPoints, FullDocCap)
                /\ pc[p] = "df_scrollChunks"
                     => LoopGoesOn(loc[p], loc[p].chunkPoints, ChunkCap)

\* C25: every scroll loop (of listAllFullDocuments, of getAllDocuments and
\* of the two phases of deleteFullDocument) is left in the end; it scrolls
\* again only when the last page was not empty, came with a next offset and
\* left the points collected below the cap, and with pages of at most
\* ScrollLimit points it never collects more points than the cap.
C25_ScrollLoopsTerminate ==
    /\ []ScrollLoopsWithinCaps
    /\ \A p \in Procs :
         \A label \in {"lf_scroll", "ga_scroll", "df_scrollFull", "df_scrollChunks"} :
            (pc[p] = label) ~> (pc[p] # label)

\* A loop has stopped at the cap although the backend reported a next offset.
C25_Witness ==
    \E p \in Procs :
        /\ Returned(p, "listAllFullDocuments")
        /\ Len(loc[p].allPoints) = FullDocCap
        /\ loc[p].hasMore
        /\ loc[p].offset # Null

-----------------------------------------------------------------------------
(* Properties of the frame of deletion *)

\* C26: while deleteFullDocument(D) runs and when it has returned, with
\* success or with failure, every chunk point whose document_id is not D and
\* every full-document record whose documentId is not D that was stored when
\* it was called is stored unchanged, and no point has been added.
C26_DeletionFrame ==
    \A p \in Procs :
        call[p].op = "deleteFullDocument"
        => /\ {pt \in pre[p].documents.points :
                  pt.payload.document_id # call[p].documentId} \subseteq documents.points
           /\ {pt \in pre[p].full_documents.points :
                  pt.payload.documentId # call[p].documentId} \subseteq full_documents.points
           /\ documents.points \subseteq pre[p].documents.points
           /\ full_documents.points \subseteq pre[p].full_documents.points

\* The chunks and the record of "Aa" have been deleted beside those of "C".
C26_Witness ==
    \E p \in Procs :
        /\ Returned(p, "deleteFullDocument")
        /\ ret[p].success
        /\ ChunksOf(pre[p].documents.points, call[p].documentId) # {}
        /\ ChunksOf(documents.points, call[p].documentId) = {}
        /\ RecordsOf(pre[p].full_documents.points, call[p].documentId) # {}
        /\ RecordsOf(full_documents.points, call[p].documentId) = {}
        /\ ChunksOf(documents.points, "C") # {}
        /\ RecordsOf(full_documents.points, "C") # {}

-----------------------------------------------------------------------------
(* Properties of the two phases of deletion *)

FullPhaseCalls == {"scroll full_documents", "delete full_documents"}

ChunkPhaseCalls == {"scroll documents", "delete documents"}

\* C30: deleteFullDocument issues the calls of the full-document phase
\* before those of the chunk phase, runs the chunk phase whatever happened
\* in the full-document phase, and returns success: true exactly when no
\* call of the chunk phase threw; otherwise it returns success: false with
\* the text of that error.
C30_ResultIsThatOfTheChunkPhase ==
    \A p \in Procs :
        Returned(p, "deleteFullDocument")
        => LET failed == {k \in 1..Len(loc[p].threw) :
                             loc[p].threw[k].step \in ChunkPhaseCalls}
           IN  /\ \A j, k \in 1..Len(trace[p]) :
                    (trace[p][j] \in FullPhaseCalls /\ trace[p][k] \in ChunkPhaseCalls)
                    => j < k
               /\ trace[p][1] = "scroll full_documents"
               /\ \E k \in 1..Len(trace[p]) : trace[p][k] = "scroll documents"
               /\ ret[p].success <=> failed = {}
               /\ ret[p].success => ret[p] = DeleteSucceeded(call[p].documentId)
               /\ \A k \in failed :
                    ret[p] = [error |-> loc[p].threw[k].error, success |-> FALSE]

\* The delete of the record threw, the chunks were deleted all the same and
\* the call reported success.
C30_Witness ==
    \E p \in Procs :
        /\ Returned(p, "deleteFullDocument")
        /\ ret[p].success
        /\ "delete full_documents" \in ThrownSteps(loc[p])
        /\ "delete documents" \in Range(trace[p])
        /\ ChunksOf(documents.points, call[p].documentId) = {}

-----------------------------------------------------------------------------
(* Properties of the frame of ingestion *)

\* The ids drawn for the points of the call p are ids of no stored point.
FreshPointIds(p) ==
    \A k \in 1..Len(loc[p].points) :
        loc[p].points[k].id \notin PointIds(pre[p].documents.points)

\* C27: a call of storeChunksWithEmbeddings made when "documents" exists
\* with vector size 768 has issued neither deleteCollection nor
\* createCollection when it returns, and, the ids of its points being
\* fresh, every chunk point stored at the call is then stored unchanged.
C27_IngestionFrame ==
    \A p \in Procs :
        ( /\ Returned(p, "storeChunksWithEmbeddings")
          /\ pre[p].documents.exists
          /\ pre[p].documents.size = ExpectedDim )
        => /\ NoneIssued(trace[p], "deleteCollection")
           /\ NoneIssued(trace[p], "createCollection")
           /\ FreshPointIds(p) => pre[p].documents.points \subseteq documents.points

-----------------------------------------------------------------------------
(* Properties of concurrent calls *)

\* No call of the request p failed for a reason other than the state of the
\* collections: a missing collection, or one that exists already.
BackendUp(p) ==
    \A k \in 1..Len(loc[p].threw) : loc[p].threw[k].error \in {ErrNotFound, ErrExists}

\* C29: when two storeFullDocument calls for documents with different
\* numeric ids, both made while full_documents did not exist, have returned,
\* the backend having answered every call, both have returned success and
\* the records of both documents are stored.
C29_ConcurrentLazyCreation ==
    \A p, q \in Procs :
        ( /\ p # q
          /\ Returned(p, "storeFullDocument")
          /\ Returned(q, "storeFullDocument")
          /\ ~pre[p].full_documents.exists
          /\ ~pre[q].full_documents.exists
          /\ BackendUp(p)
          /\ BackendUp(q)
          /\ stringToNumericId(call[p].documentId) # stringToNumericId(call[q].documentId) )
        => /\ ret[p].success
           /\ ret[q].success
           /\ RecordsOf(full_documents.points, call[p].documentId) # {}
           /\ RecordsOf(full_documents.points, call[q].documentId) # {}

\* The ids of the points the request p has built.
BuiltIds(p) == {loc[p].points[k].id : k \in 1..Len(loc[p].points)}

\* C28: once storeChunksWithEmbeddings has returned success for a document,
\* the points it stored stay in the chunk store whatever the other request's
\* storeChunksWithEmbeddings call does, no id having been drawn twice,
\* whether that call started on a missing collection, on one of another
\* vector size, or on the 768-dimension one.
C28_DurableUnderConcurrentIngestion ==
    \A p, q \in Procs :
        ( /\ p # q
          /\ Returned(p, "storeChunksWithEmbeddings")
          /\ ret[p].success
          /\ Cardinality(BuiltIds(p)) = Len(loc[p].points)
          /\ call[q].op = "storeChunksWithEmbeddings" => BuiltIds(q) \cap BuiltIds(p) = {} )
        => \A k \in 1..Len(loc[p].points) : loc[p].points[k] \in documents.points

\* The point as scroll returns it.
Scanned(pt) == [id |-> pt.id, payload |-> pt.payload]

\* C22: when deleteFullDocument(D) has returned success while an ingestion
\* of D was running or had run, chunk points and a record of D can be in
\* the stores; those that are there are points the delete's scans did not
\* return, written by the ingestion behind or after the scan: the delete
\* removes what it scanned, once.
C22_SurvivorsWereNotScanned ==
    \A p, q \in Procs :
        ( /\ Returned(p, "deleteFullDocument")
          /\ ret[p].success
          /\ call[q].op \in {"storeChunksWithEmbeddings", "storeFullDocument"}
          /\ call[q].documentId = call[p].documentId )
        => /\ \A pt \in ChunksOf(documents.points, call[p].documentId) :
                /\ Scanned(pt) \notin Range(loc[p].chunkPoints)
                /\ call[q].op = "storeChunksWithEmbeddings"
                /\ pt \in Range(loc[q].points)
           /\ ThrownSteps(loc[p]) = {}
                => \A pt \in RecordsOf(full_documents.points, call[p].documentId) :
                     /\ Scanned(pt) \notin Range(loc[p].fullDocPoints)
                     /\ call[q].op = "storeFullDocument"
                     /\ pt = loc[q].point

\* The delete of "Aa" and an ingestion of chunks of "Aa" have both returned
\* success, no call having failed, and chunk points of "Aa" are stored.
C22_Witness ==
    \E p, q \in Procs :
        /\ Returned(p, "deleteFullDocument")
        /\ ret[p].success
        /\ loc[p].threw = <<>>
        /\ Returned(q, "storeChunksWithEmbeddings")
        /\ ret[q].success
        /\ loc[q].threw = <<>>
        /\ call[q].documentId = call[p].documentId
        /\ ChunksOf(pre[p].documents.points, call[p].documentId) # {}
        /\ ChunksOf(documents.points, call[p].documentId) # {}

====
